---------------------------- MODULE Spec2Model ----------------------------
(***************************************************************************)
(* The SEG compiler pipeline: token stream -> recursive-descent parser ->  *)
(* AST -> literal collector -> code generator -> x86-64 assembly text, and *)
(* the execution of the emitted assembly.                                  *)
(*                                                                         *)
(* A lexeme is a sequence of one-character strings, so that strchr, strcmp *)
(* and the numeric reading of a literal are computed, not assumed.  A      *)
(* linked list of statements (the `next' pointer) is a sequence; the NULL  *)
(* list is the empty sequence.                                             *)
(***************************************************************************)
EXTENDS Integers, Sequences, FiniteSets, TLC

(***************************************************************************)
(* Bounds of the model.                                                    *)
(***************************************************************************)
\* integer literals of the generated sources are 0..MaxLit
MaxLit == 3
\* a corrupted source has its bad token at one of the first MaxBad places
MaxBad == 14

(***************************************************************************)
(* include/type.h: VarType.                                                *)
(***************************************************************************)
VarType == {"TYPE_UNKNOWN", "TYPE_INT", "TYPE_FLOAT", "TYPE_BOOL", "TYPE_CHAR", "TYPE_STRING"}

(***************************************************************************)
(* Tokens.  The line number is used for diagnostics only and is left out.  *)
(***************************************************************************)
Tok(type, lexeme) == [type |-> type, lexeme |-> lexeme]

\* lexer_next_token at the end of the stream: the end marker, with no lexeme
EofToken == Tok("TOKEN_EOF", <<>>)

\* the token the lexer hands out on its pos-th call (parser_init makes the first)
lexer_next_token(toks, pos) == IF pos <= Len(toks) THEN toks[pos] ELSE EofToken

\* strchr(lexeme, '.') != NULL
strchr_dot(lexeme) == \E i \in DOMAIN lexeme : lexeme[i] = "."

(***************************************************************************)
(* AST nodes (include/ast.h, src/ast.c).                                   *)
(***************************************************************************)
NullNode == [type |-> "NULL"]

create_var_decl_node(var_type, name, value) ==
    [type |-> "AST_VAR_DECL", result_type |-> var_type,
     var_type |-> var_type, name |-> name, value |-> value]

create_literal_node(value, type) ==
    [type |-> "AST_LITERAL", result_type |-> type, value |-> value]

create_identifier_node(name) ==
    [type |-> "AST_IDENTIFIER", result_type |-> "TYPE_UNKNOWN", name |-> name]

create_binary_expr_node(op, left, right) ==
    [type |-> "AST_BINARY_EXPR", result_type |-> "TYPE_UNKNOWN",
     op |-> op, left |-> left, right |-> right]

create_unary_expr_node(op, operand) ==
    [type |-> "AST_UNARY_EXPR", result_type |-> "TYPE_UNKNOWN",
     op |-> op, operand |-> operand]

create_if_statement_node(condition, then_branch, else_branch) ==
    [type |-> "AST_IF_STATEMENT", result_type |-> "TYPE_UNKNOWN",
     condition |-> condition, then_branch |-> then_branch,
     else_branch |-> else_branch]

(***************************************************************************)
(* The parser (parser.c).  A parse function takes the token stream and the *)
(* number of tokens requested so far (the current token is the pos-th) and *)
(* returns the node built and the new position, or the failure: exit(1)    *)
(* with the current token still the one that failed.                       *)
(***************************************************************************)
ParseOk(node, pos) == [ok |-> TRUE, node |-> node, pos |-> pos, err |-> "none"]
ParseExit(pos, err) == [ok |-> FALSE, node |-> NullNode, pos |-> pos, err |-> err]

\* a parser that requests two tokens where it needs one
advance_twice(pos) == pos + 2

\* advance: one more token is requested from the lexer
advance(pos) == pos + 1

\* a parser whose expectations never fail
expect_any(toks, pos, type) == TRUE

\* expect: TRUE when the current token has the type, otherwise the parser exits
expect(toks, pos, type) == lexer_next_token(toks, pos).type = type

SetResultType(node, t) == [node EXCEPT !.result_type = t]

RECURSIVE parse_logical_or(_, _)
RECURSIVE logical_or_loop(_, _)
RECURSIVE parse_logical_xor(_, _)
RECURSIVE logical_xor_loop(_, _)
RECURSIVE parse_logical_and(_, _)
RECURSIVE logical_and_loop(_, _)
RECURSIVE parse_equality(_, _)
RECURSIVE equality_loop(_, _)
RECURSIVE parse_comparison(_, _)
RECURSIVE comparison_loop(_, _)
RECURSIVE parse_term(_, _)
RECURSIVE term_loop(_, _)
RECURSIVE parse_unary(_, _)
RECURSIVE parse_factor(_, _)

parse_expression(toks, pos) == parse_logical_or(toks, pos)

\* the tail of parse_factor's parenthesis case, r the result of parse_expression
factor_paren(toks, r) ==
    IF ~r.ok THEN r
    ELSE IF ~expect(toks, r.pos, "TOKEN_RPAREN") THEN ParseExit(r.pos, "expect")
    ELSE ParseOk(r.node, advance(r.pos))

parse_factor(toks, pos) ==
    LET t == lexer_next_token(toks, pos) IN
    CASE t.type = "TOKEN_NUMBER" ->
           ParseOk(create_literal_node(t.lexeme,
                       IF strchr_dot(t.lexeme) THEN "TYPE_FLOAT" ELSE "TYPE_INT"),
                   advance(pos))
      [] t.type = "TOKEN_BOOL_LITERAL" ->
           ParseOk(create_literal_node(t.lexeme, "TYPE_BOOL"), advance(pos))
      [] t.type = "TOKEN_CHAR_LITERAL" ->
           ParseOk(create_literal_node(t.lexeme, "TYPE_CHAR"), advance(pos))
      [] t.type = "TOKEN_STRING_LITERAL" ->
           ParseOk(create_literal_node(t.lexeme, "TYPE_STRING"), advance(pos))
      [] t.type = "TOKEN_IDENTIFIER" ->
           ParseOk(create_identifier_node(t.lexeme), advance(pos))
      [] t.type = "TOKEN_LPAREN" ->
           factor_paren(toks, parse_expression(toks, advance(pos)))
      [] OTHER -> ParseExit(pos, "unexpected_token")

\* the tail of parse_unary's `!' case, r the result of the operand's parse
unary_node(r) ==
    IF ~r.ok THEN r
    ELSE ParseOk(create_unary_expr_node("TOKEN_NOT", r.node), r.pos)

parse_unary(toks, pos) ==
    IF lexer_next_token(toks, pos).type = "TOKEN_NOT"
    THEN unary_node(parse_unary(toks, advance(pos)))
    ELSE parse_factor(toks, pos)

TermOps == {"TOKEN_PLUS", "TOKEN_MINUS", "TOKEN_STAR", "TOKEN_SLASH"}

\* a loop body that types the new node and leaves its operands as they were
term_node_unpromoted(op, node, right) ==
    SetResultType(create_binary_expr_node(op, node, right),
                  IF node.result_type # right.result_type THEN "TYPE_FLOAT"
                  ELSE right.result_type)

\* the body of parse_term's while loop: the operand types are promoted in
\* place, and the new node takes the type of its right operand
term_node(op, node, right) ==
    LET differ == node.result_type # right.result_type
        l == IF differ THEN SetResultType(node, "TYPE_FLOAT") ELSE node
        r == IF differ THEN SetResultType(right, "TYPE_FLOAT") ELSE right
    IN  SetResultType(create_binary_expr_node(op, l, r), r.result_type)

\* one turn of parse_term's loop: l the node so far, r the right operand's parse
term_step(op, l, r) ==
    IF ~r.ok THEN r ELSE ParseOk(term_node(op, l.node, r.node), r.pos)

\* parse_term's while loop, l the result of the parse of the operands so far
term_loop(toks, l) ==
    LET op == lexer_next_token(toks, l.pos).type IN
    IF l.ok /\ op \in TermOps
    THEN term_loop(toks, term_step(op, l, parse_unary(toks, advance(l.pos))))
    ELSE l

parse_term(toks, pos) == term_loop(toks, parse_unary(toks, pos))

\* the node built by the loops of the comparison, equality and logical levels
bool_node(op, node, right) ==
    SetResultType(create_binary_expr_node(op, node, right), "TYPE_BOOL")

\* one turn of those loops: l the node so far, r the right operand's parse
bool_step(op, l, r) ==
    IF ~r.ok THEN r ELSE ParseOk(bool_node(op, l.node, r.node), r.pos)

ComparisonOps == {"TOKEN_LT", "TOKEN_GT", "TOKEN_LEQ", "TOKEN_GEQ"}

comparison_loop(toks, l) ==
    LET op == lexer_next_token(toks, l.pos).type IN
    IF l.ok /\ op \in ComparisonOps
    THEN comparison_loop(toks, bool_step(op, l, parse_term(toks, advance(l.pos))))
    ELSE l

parse_comparison(toks, pos) == comparison_loop(toks, parse_term(toks, pos))

EqualityOps == {"TOKEN_EQ", "TOKEN_NEQ"}

equality_loop(toks, l) ==
    LET op == lexer_next_token(toks, l.pos).type IN
    IF l.ok /\ op \in EqualityOps
    THEN equality_loop(toks, bool_step(op, l, parse_comparison(toks, advance(l.pos))))
    ELSE l

parse_equality(toks, pos) == equality_loop(toks, parse_comparison(toks, pos))

logical_and_loop(toks, l) ==
    LET op == lexer_next_token(toks, l.pos).type IN
    IF l.ok /\ op = "TOKEN_AND"
    THEN logical_and_loop(toks, bool_step(op, l, parse_equality(toks, advance(l.pos))))
    ELSE l

parse_logical_and(toks, pos) == logical_and_loop(toks, parse_equality(toks, pos))

logical_xor_loop(toks, l) ==
    LET op == lexer_next_token(toks, l.pos).type IN
    IF l.ok /\ op = "TOKEN_XOR"
    THEN logical_xor_loop(toks, bool_step(op, l, parse_logical_and(toks, advance(l.pos))))
    ELSE l

parse_logical_xor(toks, pos) == logical_xor_loop(toks, parse_logical_and(toks, pos))

logical_or_loop(toks, l) ==
    LET op == lexer_next_token(toks, l.pos).type IN
    IF l.ok /\ op = "TOKEN_OR"
    THEN logical_or_loop(toks, bool_step(op, l, parse_logical_xor(toks, advance(l.pos))))
    ELSE l

parse_logical_or(toks, pos) == logical_or_loop(toks, parse_logical_xor(toks, pos))

\* the switch on the type keyword at the head of parse_var_decl
TypeKeyword(t) ==
    CASE t = "TOKEN_INT" -> "TYPE_INT"
      [] t = "TOKEN_FLOAT" -> "TYPE_FLOAT"
      [] t = "TOKEN_BOOL" -> "TYPE_BOOL"
      [] t = "TOKEN_CHAR" -> "TYPE_CHAR"
      [] t = "TOKEN_STRING" -> "TYPE_STRING"
      [] OTHER -> "TYPE_UNKNOWN"

\* a declaration that leaves the type of its initializer as it was inferred
coerce_never(var_type, value) == value

\* the coercion of the initializer's type to the declared type
coerce_initializer(var_type, value) ==
    IF var_type = "TYPE_BOOL" THEN SetResultType(value, "TYPE_BOOL")
    ELSE IF var_type \in {"TYPE_INT", "TYPE_FLOAT"} /\ value.result_type = "TYPE_BOOL"
         THEN SetResultType(value, "TYPE_INT")
         ELSE value

\* the tail of parse_var_decl, r the result of the initializer's parse
var_decl_node(toks, var_type, name, r) ==
    IF ~r.ok THEN r
    ELSE IF ~expect(toks, r.pos, "TOKEN_SEMICOLON") THEN ParseExit(r.pos, "expect")
    ELSE ParseOk(create_var_decl_node(var_type, name,
                                      coerce_initializer(var_type, r.node)),
                 advance(r.pos))

parse_var_decl(toks, pos) ==
    LET var_type == TypeKeyword(lexer_next_token(toks, pos).type)
        p1 == advance(pos)
        p2 == advance(p1)
        p3 == advance(p2)
    IN
    IF var_type = "TYPE_UNKNOWN" THEN ParseExit(pos, "type_keyword")
    ELSE IF ~expect(toks, p1, "TOKEN_IDENTIFIER") THEN ParseExit(p1, "expect")
    ELSE IF ~expect(toks, p2, "TOKEN_ASSIGN") THEN ParseExit(p2, "expect")
    ELSE var_decl_node(toks, var_type, toks[p1].lexeme, parse_expression(toks, p3))

(***************************************************************************)
(* A statement list: the result of a loop that links nodes through `next'. *)
(***************************************************************************)
ListOk(nodes, pos) == [ok |-> TRUE, nodes |-> nodes, pos |-> pos, err |-> "none"]
ListExit(pos, err) == [ok |-> FALSE, nodes |-> <<>>, pos |-> pos, err |-> err]

\* a statement list l with the statement parsed by r linked at its end
list_append(l, r) ==
    IF ~r.ok THEN ListExit(r.pos, r.err)
    ELSE ListOk(Append(l.nodes, r.node), r.pos)

\* parse_program's loop: declarations are parsed and linked until the end marker
RECURSIVE program_loop(_, _)
program_loop(toks, l) ==
    IF ~l.ok \/ lexer_next_token(toks, l.pos).type = "TOKEN_EOF" THEN l
    ELSE program_loop(toks, list_append(l, parse_var_decl(toks, l.pos)))

\* parser_init requests the first token, parse_program the rest
parse_program(toks) == program_loop(toks, ListOk(<<>>, 1))

(***************************************************************************)
(* Statements (parser.h declares parse_statement, parse_if_statement and   *)
(* parse_block; no source file defines or calls them).  They follow the    *)
(* grammar                                                                 *)
(*   if '(' expression ')' block ('else' (if_statement | block))?          *)
(*   block := '{' statement* '}'                                           *)
(* in the style of parse_var_decl: expect, then advance.                   *)
(***************************************************************************)
RECURSIVE parse_statement(_, _)
RECURSIVE parse_if_statement(_, _)
RECURSIVE parse_block(_, _)
RECURSIVE block_loop(_, _)

parse_statement(toks, pos) ==
    IF lexer_next_token(toks, pos).type = "TOKEN_IF"
    THEN parse_if_statement(toks, pos)
    ELSE parse_var_decl(toks, pos)

\* the statements of a block up to its closing brace, l the list so far
block_loop(toks, l) ==
    IF ~l.ok THEN l
    ELSE IF lexer_next_token(toks, l.pos).type = "TOKEN_RBRACE"
    THEN ListOk(l.nodes, advance(l.pos))
    ELSE block_loop(toks, list_append(l, parse_statement(toks, l.pos)))

parse_block(toks, pos) ==
    IF ~expect(toks, pos, "TOKEN_LBRACE") THEN ListExit(pos, "expect")
    ELSE block_loop(toks, ListOk(<<>>, advance(pos)))

\* the optional else part: another if statement (a one-statement list) or a block
parse_else(toks, pos) ==
    IF lexer_next_token(toks, pos).type # "TOKEN_ELSE" THEN ListOk(<<>>, pos)
    ELSE IF lexer_next_token(toks, advance(pos)).type = "TOKEN_IF"
         THEN list_append(ListOk(<<>>, pos), parse_if_statement(toks, advance(pos)))
         ELSE parse_block(toks, advance(pos))

\* the if node, from the condition's parse c and the branches' parses t and e
if_node(c, t, e) ==
    IF ~e.ok THEN ParseExit(e.pos, e.err)
    ELSE ParseOk(create_if_statement_node(c.node, t.nodes, e.nodes), e.pos)

\* the else part of an if statement, after the then block's parse t
if_else(toks, c, t) ==
    IF ~t.ok THEN ParseExit(t.pos, t.err)
    ELSE if_node(c, t, parse_else(toks, t.pos))

\* the then block of an if statement, after the condition's parse c
if_then(toks, c) ==
    IF ~c.ok THEN c
    ELSE IF ~expect(toks, c.pos, "TOKEN_RPAREN") THEN ParseExit(c.pos, "expect")
    ELSE if_else(toks, c, parse_block(toks, advance(c.pos)))

parse_if_statement(toks, pos) ==
    IF ~expect(toks, pos, "TOKEN_IF") THEN ParseExit(pos, "expect")
    ELSE IF ~expect(toks, advance(pos), "TOKEN_LPAREN")
         THEN ParseExit(advance(pos), "expect")
         ELSE if_then(toks, parse_expression(toks, advance(advance(pos))))

\* a program loop that takes each top-level statement through parse_statement
RECURSIVE statements_loop(_, _)
statements_loop(toks, l) ==
    IF ~l.ok \/ lexer_next_token(toks, l.pos).type = "TOKEN_EOF" THEN l
    ELSE statements_loop(toks, list_append(l, parse_statement(toks, l.pos)))

parse_statements(toks) == statements_loop(toks, ListOk(<<>>, 1))

(***************************************************************************)
(* The symbol table (symbol.c): a linked list, the newest entry first.     *)
(***************************************************************************)
\* a table that keeps the oldest entry at its head
add_symbol_last(table, name, type) == table \o <<[name |-> name, type |-> type]>>

add_symbol(table, name, type) == <<[name |-> name, type |-> type]>> \o table

\* the index of the first entry with the name, 0 for NULL
RECURSIVE lookup_from(_, _, _)
lookup_from(table, name, i) ==
    IF i > Len(table) THEN 0
    ELSE IF table[i].name = name THEN i
    ELSE lookup_from(table, name, i + 1)

lookup_symbol(table, name) == lookup_from(table, name, 1)

(***************************************************************************)
(* Assembly text.  A line is the format string that prints it and its      *)
(* arguments: a label l, a text t and a number v.  "L_literal_%d" and the  *)
(* if labels are a prefix and the number; a variable name and `main' are   *)
(* names.                                                                  *)
(***************************************************************************)
Label(k, n, i) == [k |-> k, n |-> n, i |-> i]
NoLabel == Label("none", <<>>, 0)
NameLabel(name) == Label("name", name, 0)
MainLabel == NameLabel(<<"m", "a", "i", "n">>)
\* labels numbered from 1
LiteralLabelFromOne(i) == Label("L_literal", <<>>, i + 1)
LiteralLabel(i) == Label("L_literal", <<>>, i)

Line(op, l, t, v) == [op |-> op, l |-> l, t |-> t, v |-> v]
Op(op) == Line(op, NoLabel, <<>>, 0)
OpL(op, l) == Line(op, l, <<>>, 0)

LexTrue == <<"t", "r", "u", "e">>
LexFalse == <<"f", "a", "l", "s", "e">>

(***************************************************************************)
(* The code generator (codegen.c).  Its state: the output written so far,  *)
(* the static literal list (newest first), the static counters, and        *)
(* whether the process is still running ("ok") or has called exit(1).      *)
(***************************************************************************)
GenInit == [out |-> <<>>, literals |-> <<>>, literal_counter |-> 0,
            if_counter |-> 0, status |-> "ok"]

\* fprintf to the output; a process that has called exit writes nothing more
Emit(g, line) == IF g.status # "ok" THEN g ELSE [g EXCEPT !.out = Append(@, line)]
EmitAll(g, lines) == IF g.status # "ok" THEN g ELSE [g EXCEPT !.out = @ \o lines]
GenExit(g, why) == [g EXCEPT !.status = why]

\* a search of the literal list that finds nothing
literal_index_none(literals, value, type, i) == 0

\* the index of the first entry with this value and type, 0 when there is none
RECURSIVE literal_index(_, _, _, _)
literal_index(literals, value, type, i) ==
    IF i > Len(literals) THEN 0
    ELSE IF literals[i].value = value /\ literals[i].type = type THEN i
    ELSE literal_index(literals, value, type, i + 1)

add_literal(g, value, type) ==
    IF literal_index(g.literals, value, type, 1) # 0 THEN g
    ELSE [g EXCEPT !.literals = <<[label |-> LiteralLabel(g.literal_counter),
                                   value |-> value, type |-> type]>> \o @,
                   !.literal_counter = @ + 1]

\* the label found (found = TRUE), or the fatal "Literal not found"
get_literal_label(g, value, type) ==
    LET i == literal_index(g.literals, value, type, 1) IN
    IF i # 0 THEN [found |-> TRUE, label |-> g.literals[i].label]
    ELSE [found |-> FALSE, label |-> NoLabel]

\* a collector that registers every literal, the integers too
EveryLiteralType == {"TYPE_INT", "TYPE_FLOAT", "TYPE_BOOL", "TYPE_CHAR", "TYPE_STRING"}

StoredLiteralTypes == {"TYPE_FLOAT", "TYPE_BOOL", "TYPE_CHAR", "TYPE_STRING"}

RECURSIVE collect_literals(_, _)
RECURSIVE collect_list(_, _, _)

\* collect_literals on one node, without its next link
collect_literals(g, node) ==
    CASE node.type = "AST_LITERAL" ->
           IF node.result_type \in StoredLiteralTypes
           THEN add_literal(g, node.value, node.result_type) ELSE g
      [] node.type = "AST_BINARY_EXPR" ->
           collect_literals(collect_literals(g, node.left), node.right)
      [] node.type = "AST_UNARY_EXPR" -> collect_literals(g, node.operand)
      [] node.type = "AST_VAR_DECL" -> collect_literals(g, node.value)
      [] node.type = "AST_IF_STATEMENT" ->
           collect_list(collect_list(collect_literals(g, node.condition),
                                     node.then_branch, 1),
                        node.else_branch, 1)
      [] OTHER -> g

\* collect_literals along the next links of a statement list
collect_list(g, nodes, i) ==
    IF i > Len(nodes) THEN g
    ELSE collect_list(collect_literals(g, nodes[i]), nodes, i + 1)

\* the line of one literal in the read-only section
literal_line(lit) ==
    CASE lit.type = "TYPE_FLOAT" -> <<Line("%s: .double %s", lit.label, lit.value, 0)>>
      [] lit.type = "TYPE_BOOL" ->
           <<Line("%s: .quad %s", lit.label, <<>>, IF lit.value = LexTrue THEN 1 ELSE 0)>>
      [] lit.type = "TYPE_CHAR" -> <<Line("%s: .byte '%s'", lit.label, lit.value, 0)>>
      [] lit.type = "TYPE_STRING" -> <<Line("%s: .string \"%s\"", lit.label, lit.value, 0)>>
      [] OTHER -> <<>>

RECURSIVE generate_literals_section(_, _)
generate_literals_section(g, i) ==
    IF i > Len(g.literals) THEN g
    ELSE generate_literals_section(EmitAll(g, literal_line(g.literals[i])), i + 1)

\* generate_data_section: gs is the pair of generator state and symbol table
RECURSIVE generate_data_section(_, _, _)
generate_data_section(gs, program, i) ==
    IF i > Len(program) THEN gs
    ELSE LET cur == program[i] IN
         IF cur.type = "AST_VAR_DECL"
         THEN generate_data_section(
                [g |-> Emit(gs.g,
                            IF cur.var_type = "TYPE_FLOAT"
                            THEN OpL("%s: .double 0.0", NameLabel(cur.name))
                            ELSE OpL("%s: .quad 0", NameLabel(cur.name))),
                 symbols |-> add_symbol(gs.symbols, cur.name, cur.var_type)],
                program, i + 1)
         ELSE generate_data_section(gs, program, i + 1)

\* a lowering that pops the saved operand a second time
binary_op_lines_popping(op) == <<Op("pop rbx"), Op("add rax, rbx")>>

\* the lines of the switch on the operator of a binary expression
binary_op_lines(op) ==
    CASE op = "TOKEN_PLUS" -> <<Op("add rax, rbx")>>
      [] op = "TOKEN_MINUS" -> <<Op("sub rax, rbx")>>
      [] op = "TOKEN_STAR" -> <<Op("imul rax, rbx")>>
      [] op = "TOKEN_SLASH" -> <<Op("cqo"), Op("idiv rbx")>>
      [] op = "TOKEN_EQ" -> <<Op("cmp rax, rbx"), Op("sete al"), Op("movzx rax, al")>>
      [] op = "TOKEN_NEQ" -> <<Op("cmp rax, rbx"), Op("setne al"), Op("movzx rax, al")>>
      [] op = "TOKEN_LT" -> <<Op("cmp rax, rbx"), Op("setl al"), Op("movzx rax, al")>>
      [] op = "TOKEN_LEQ" -> <<Op("cmp rax, rbx"), Op("setle al"), Op("movzx rax, al")>>
      [] op = "TOKEN_GT" -> <<Op("cmp rax, rbx"), Op("setg al"), Op("movzx rax, al")>>
      [] op = "TOKEN_GEQ" -> <<Op("cmp rax, rbx"), Op("setge al"), Op("movzx rax, al")>>
      [] op = "TOKEN_AND" -> <<Op("and rax, rbx")>>
      [] op = "TOKEN_OR" -> <<Op("or rax, rbx")>>
      [] op = "TOKEN_XOR" -> <<Op("xor rax, rbx")>>
      [] OTHER -> <<Op("; [unsupported binary op]")>>

\* the line that loads a literal, given its label
literal_load(node, label) ==
    CASE node.result_type = "TYPE_FLOAT" -> OpL("movsd xmm0, [rip + %s]", label)
      [] node.result_type \in {"TYPE_BOOL", "TYPE_CHAR"} -> OpL("mov rax, [rip + %s]", label)
      [] node.result_type = "TYPE_STRING" -> OpL("lea rax, [rip + %s]", label)
      [] OTHER -> Line("mov rax, %s", NoLabel, node.value, 0)

RECURSIVE generate_expression(_, _, _)
generate_expression(g, node, symbols) ==
    IF g.status # "ok" THEN g
    ELSE
    CASE node.type = "AST_LITERAL" ->
           LET lab == get_literal_label(g, node.value, node.result_type) IN
           IF ~lab.found THEN GenExit(g, "literal_not_found")
           ELSE Emit(g, literal_load(node, lab.label))
      [] node.type = "AST_IDENTIFIER" ->
           LET sym == lookup_symbol(symbols, node.name) IN
           IF sym = 0 THEN GenExit(g, "undefined_variable")
           ELSE IF symbols[sym].type = "TYPE_FLOAT"
                THEN Emit(g, OpL("movsd xmm0, [rip + %s]", NameLabel(node.name)))
                ELSE Emit(g, OpL("mov rax, [rip + %s]", NameLabel(node.name)))
      [] node.type = "AST_BINARY_EXPR" ->
           EmitAll(
             Emit(generate_expression(
                    Emit(generate_expression(g, node.right, symbols), Op("push rax")),
                    node.left, symbols),
                  Op("pop rbx")),
             binary_op_lines(node.op))
      [] node.type = "AST_UNARY_EXPR" ->
           EmitAll(generate_expression(g, node.operand, symbols),
                   IF node.op = "TOKEN_NOT"
                   THEN <<Op("cmp rax, 0"), Op("sete al"), Op("movzx rax, al")>>
                   ELSE <<>>)
      [] OTHER -> Emit(g, Op("; [unsupported node type]"))

IfLabel(k, n) == Label(k, <<>>, n)

\* the while loop at the end of generate_program: the literal list is freed
free_literals(g) == IF g.status # "ok" THEN g ELSE [g EXCEPT !.literals = <<>>]

\* a counter that stays where it is
next_if_label_same(g) == g

\* label_num = if_counter++
next_if_label(g) == [g EXCEPT !.if_counter = @ + 1]

RECURSIVE generate_program(_, _)
RECURSIVE generate_statements(_, _, _, _)
RECURSIVE generate_else(_, _, _)

\* the else part of an if statement: its label and its branch, when there is one
generate_else(g, cur, label_num) ==
    IF cur.else_branch = <<>> THEN g
    ELSE generate_program(Emit(g, OpL("%s:", IfLabel("L_if_else", label_num))),
                          cur.else_branch)

\* the while loop of generate_program over the statements of the list
generate_statements(g, program, i, symbols) ==
    IF g.status # "ok" \/ i > Len(program) THEN g
    ELSE LET cur == program[i]
             label_num == g.if_counter
    IN
    CASE cur.type = "AST_VAR_DECL" ->
           generate_statements(
             Emit(generate_expression(g, cur.value, symbols),
                  IF cur.var_type = "TYPE_FLOAT"
                  THEN OpL("movsd [rip + %s], xmm0", NameLabel(cur.name))
                  ELSE OpL("mov [rip + %s], rax", NameLabel(cur.name))),
             program, i + 1, symbols)
      [] cur.type = "AST_IF_STATEMENT" ->
           generate_statements(
             Emit(generate_else(
                    Emit(generate_program(
                           EmitAll(generate_expression(next_if_label(g), cur.condition,
                                                       symbols),
                                   <<Op("cmp rax, 0"),
                                     OpL("je %s", IfLabel(IF cur.else_branch # <<>>
                                                          THEN "L_if_else"
                                                          ELSE "L_if_end", label_num)),
                                     OpL("%s:", IfLabel("L_if_true", label_num))>>),
                           cur.then_branch),
                         OpL("jmp %s", IfLabel("L_if_end", label_num))),
                    cur, label_num),
                  OpL("%s:", IfLabel("L_if_end", label_num))),
             program, i + 1, symbols)
      [] OTHER -> generate_statements(g, program, i + 1, symbols)

\* the sections written before the statements: gs is the generator state and
\* the symbol table that generate_data_section built
generate_text(gs, program) ==
    generate_statements(
      EmitAll(gs.g, <<Op(".text"), Op(".global main"), OpL("%s:", MainLabel)>>),
      program, 1, gs.symbols)

\* generate_program from the read-only section to the last statement
generate_body(g, program) ==
    generate_text(
      generate_data_section(
        [g |-> Emit(generate_literals_section(
                      EmitAll(g, <<Op(".intel_syntax noprefix"),
                                   Op(".section .rodata")>>), 1),
                    Op(".data")),
         symbols |-> <<>>],
        program, 1),
      program)

\* the end of generate_program: the exit code, and the literal list freed
generate_epilogue(g) ==
    free_literals(EmitAll(g, <<Line("mov rax, %s", NoLabel, <<"0">>, 0), Op("ret")>>))

generate_program(g, program) ==
    IF g.status # "ok" THEN g
    ELSE generate_epilogue(generate_body(collect_list(g, program, 1), program))

(***************************************************************************)
(* The emitted assembly, assembled and run (README: gcc -m64 output.s,     *)
(* ./program).  A 64-bit pattern is a quad (a signed integer), the double  *)
(* or the bytes that a data line wrote (kept as their text), the address   *)
(* of a label, or junk: the content of a register or flag that the program *)
(* reads without having written it.                                        *)
(***************************************************************************)
Quad(n) == [k |-> "quad", v |-> n, t |-> <<>>, l |-> NoLabel]
Double(text) == [k |-> "double", v |-> 0, t |-> text, l |-> NoLabel]
Bytes(text) == [k |-> "bytes", v |-> 0, t |-> text, l |-> NoLabel]
Address(label) == [k |-> "address", v |-> 0, t |-> <<>>, l |-> label]
Junk == [k |-> "junk", v |-> 0, t |-> <<>>, l |-> NoLabel]

Digits == <<"0", "1", "2", "3", "4", "5", "6", "7", "8", "9">>
DigitValue(c) == (CHOOSE d \in DOMAIN Digits : Digits[d] = c) - 1
IsDigit(c) == \E d \in DOMAIN Digits : Digits[d] = c

\* the integer an immediate operand denotes to the assembler
RECURSIVE Immediate(_)
Immediate(text) ==
    IF text = <<>> THEN 0
    ELSE 10 * Immediate(SubSeq(text, 1, Len(text) - 1)) + DigitValue(text[Len(text)])

DirectiveSection(op) ==
    CASE op = ".section .rodata" -> "rodata"
      [] op = ".data" -> "data"
      [] op = ".text" -> "text"
      [] OTHER -> "same"

DataOps == {"%s: .double %s", "%s: .quad %s", "%s: .byte '%s'", "%s: .string \"%s\"",
            "%s: .double 0.0", "%s: .quad 0"}
LabelOps == DataOps \cup {"%s:"}

\* the pattern a data line puts at its label
DataValue(line) ==
    CASE line.op = "%s: .double %s" -> Double(line.t)
      [] line.op = "%s: .double 0.0" -> Double(<<"0", ".", "0">>)
      [] line.op = "%s: .quad %s" -> Quad(line.v)
      [] line.op = "%s: .quad 0" -> Quad(0)
      [] OTHER -> Bytes(line.t)

\* the lines that the assembler places in the text section, in order
RECURSIVE TextLines(_, _, _)
TextLines(out, i, section) ==
    IF i > Len(out) THEN <<>>
    ELSE LET s == DirectiveSection(out[i].op)
             now == IF s = "same" THEN section ELSE s
         IN  (IF now = "text" /\ s = "same" THEN <<out[i]>> ELSE <<>>)
             \o TextLines(out, i + 1, now)

\* the places of the output that define the label
Definitions(out, label) == {i \in DOMAIN out : out[i].op \in LabelOps /\ out[i].l = label}
\* the labels the output defines, and those it uses
Defined(out) == {out[i].l : i \in {j \in DOMAIN out : out[j].op \in LabelOps}}
UseOps == {"movsd xmm0, [rip + %s]", "mov rax, [rip + %s]", "lea rax, [rip + %s]",
           "movsd [rip + %s], xmm0", "mov [rip + %s], rax", "je %s", "jmp %s"}
Used(out) == {out[i].l : i \in {j \in DOMAIN out : out[j].op \in UseOps}}

\* the assembler and linker accept the output: no symbol is defined twice,
\* every symbol used is defined, and the entry point exists
Assembles(out) ==
    /\ \A l \in Defined(out) : Cardinality(Definitions(out, l)) = 1
    /\ Used(out) \subseteq Defined(out)
    /\ MainLabel \in Defined(out)
    /\ \A i \in DOMAIN out : out[i].op \notin {"; [unsupported binary op]",
                                               "; [unsupported node type]"}

\* memory as loaded: each data label with the pattern of its line
InitialMemory(out) ==
    [l \in {out[i].l : i \in {j \in DOMAIN out : out[j].op \in DataOps}} |->
        DataValue(out[CHOOSE i \in DOMAIN out : out[i].op \in DataOps /\ out[i].l = l])]

\* the place of a label in the text section
TextIndex(text, label) == CHOOSE i \in DOMAIN text : text[i].op = "%s:" /\ text[i].l = label

\* bits of the two's-complement patterns of the model's values (which stay
\* far below 2^15 in magnitude, so the 64-bit result is the same)
BitWidth == 16
RECURSIVE Pow2(_)
Pow2(n) == IF n = 0 THEN 1 ELSE 2 * Pow2(n - 1)
Unsigned(n) == n % Pow2(BitWidth)
Signed(u) == IF u >= Pow2(BitWidth - 1) THEN u - Pow2(BitWidth) ELSE u
RECURSIVE Bitwise(_, _, _, _)
Bitwise(f, a, b, n) ==
    IF n = 0 THEN 0
    ELSE LET x == a % 2
             y == b % 2
             bit == CASE f = "and" -> IF x = 1 /\ y = 1 THEN 1 ELSE 0
                      [] f = "or" -> IF x = 1 \/ y = 1 THEN 1 ELSE 0
                      [] OTHER -> IF x # y THEN 1 ELSE 0
         IN  bit + 2 * Bitwise(f, a \div 2, b \div 2, n - 1)
BitOp(f, a, b) == Signed(Bitwise(f, Unsigned(a), Unsigned(b), BitWidth))

\* idiv: the quotient truncated toward zero
Abs(n) == IF n < 0 THEN -n ELSE n
TruncDiv(a, b) == IF (a < 0) = (b < 0) THEN Abs(a) \div Abs(b) ELSE -(Abs(a) \div Abs(b))

\* the machine when main is entered: the caller's registers are unknown
MachineInit(out) ==
    [status |-> "running", pc |-> 0, rax |-> Junk, rbx |-> Junk, al |-> Junk,
     xmm0 |-> Junk, flags |-> <<Junk, Junk>>, stack |-> <<>>,
     mem |-> InitialMemory(out), stores |-> <<>>]

BothQuads(a, b) == a.k = "quad" /\ b.k = "quad"

\* the result of a two-operand integer instruction on rax and rbx
Arith(op, a, b) ==
    IF ~BothQuads(a, b) THEN Junk
    ELSE CASE op = "add rax, rbx" -> Quad(a.v + b.v)
           [] op = "sub rax, rbx" -> Quad(a.v - b.v)
           [] op = "imul rax, rbx" -> Quad(a.v * b.v)
           [] op = "and rax, rbx" -> Quad(BitOp("and", a.v, b.v))
           [] op = "or rax, rbx" -> Quad(BitOp("or", a.v, b.v))
           [] OTHER -> Quad(BitOp("xor", a.v, b.v))

\* the byte a setcc instruction writes, from the flags of the last cmp
SetCC(op, flags) ==
    LET a == flags[1].v
        b == flags[2].v
        holds == CASE op = "sete al" -> a = b
                   [] op = "setne al" -> a # b
                   [] op = "setl al" -> a < b
                   [] op = "setle al" -> a <= b
                   [] op = "setg al" -> a > b
                   [] OTHER -> a >= b
    IN  IF ~BothQuads(flags[1], flags[2]) THEN Junk
        ELSE Quad(IF holds THEN 1 ELSE 0)

ArithOps == {"add rax, rbx", "sub rax, rbx", "imul rax, rbx",
             "and rax, rbx", "or rax, rbx", "xor rax, rbx"}
SetOps == {"sete al", "setne al", "setl al", "setle al", "setg al", "setge al"}

\* one instruction of the text section
Step(m, text) ==
    LET line == text[m.pc]
        op == line.op
        next == [m EXCEPT !.pc = @ + 1]
    IN
    CASE op = "%s:" -> next
      [] op \in {".global main", ".intel_syntax noprefix"} -> next
      [] op = "mov rax, %s" -> [next EXCEPT !.rax = Quad(Immediate(line.t))]
      [] op = "mov rax, [rip + %s]" -> [next EXCEPT !.rax = m.mem[line.l]]
      [] op = "lea rax, [rip + %s]" -> [next EXCEPT !.rax = Address(line.l)]
      [] op = "movsd xmm0, [rip + %s]" -> [next EXCEPT !.xmm0 = m.mem[line.l]]
      [] op = "mov [rip + %s], rax" ->
           [next EXCEPT !.mem[line.l] = m.rax,
                        !.stores = Append(@, [l |-> line.l, v |-> m.rax])]
      [] op = "movsd [rip + %s], xmm0" ->
           [next EXCEPT !.mem[line.l] = m.xmm0,
                        !.stores = Append(@, [l |-> line.l, v |-> m.xmm0])]
      [] op = "push rax" -> [next EXCEPT !.stack = <<m.rax>> \o @]
      [] op = "pop rbx" ->
           IF m.stack = <<>> THEN [m EXCEPT !.status = "stack_underflow"]
           ELSE [next EXCEPT !.rbx = Head(m.stack), !.stack = Tail(@)]
      [] op \in ArithOps -> [next EXCEPT !.rax = Arith(op, m.rax, m.rbx)]
      [] op = "cqo" -> next
      [] op = "idiv rbx" ->
           IF ~BothQuads(m.rax, m.rbx) THEN [next EXCEPT !.rax = Junk]
           ELSE IF m.rbx.v = 0 THEN [m EXCEPT !.status = "divide_error"]
           ELSE [next EXCEPT !.rax = Quad(TruncDiv(m.rax.v, m.rbx.v))]
      [] op = "cmp rax, rbx" -> [next EXCEPT !.flags = <<m.rax, m.rbx>>]
      [] op = "cmp rax, 0" -> [next EXCEPT !.flags = <<m.rax, Quad(0)>>]
      [] op \in SetOps -> [next EXCEPT !.al = SetCC(op, m.flags)]
      [] op = "movzx rax, al" -> [next EXCEPT !.rax = m.al]
      [] op = "je %s" ->
           IF ~BothQuads(m.flags[1], m.flags[2]) THEN [m EXCEPT !.status = "junk_branch"]
           ELSE IF m.flags[1].v = m.flags[2].v
                THEN [m EXCEPT !.pc = TextIndex(text, line.l)]
                ELSE next
      [] op = "jmp %s" -> [m EXCEPT !.pc = TextIndex(text, line.l)]
      [] op = "ret" ->
           IF m.stack = <<>> THEN [m EXCEPT !.status = "returned"]
           ELSE [m EXCEPT !.status = "bad_return"]
      [] OTHER -> [m EXCEPT !.status = "illegal"]

RECURSIVE Execute(_, _)
Execute(m, text) ==
    IF m.status # "running" THEN m
    ELSE IF m.pc > Len(text) THEN [m EXCEPT !.status = "ran_off_end"]
    ELSE Execute(Step(m, text), text)

\* the outcome of building and running the emitted program
RunProgram(out) ==
    IF ~Assembles(out) THEN [MachineInit(<<>>) EXCEPT !.status = "assembly_error"]
    ELSE LET text == TextLines(out, 1, "none") IN
         Execute([MachineInit(out) EXCEPT !.pc = TextIndex(text, MainLabel)], text)

(***************************************************************************)
(* The source files the compiler is run on, as the token streams the lexer *)
(* makes of them.                                                          *)
(***************************************************************************)
K(type) == Tok(type, <<>>)

\* the decimal text of a natural number
RECURSIVE Itoa(_)
Itoa(n) == IF n < 10 THEN <<Digits[n + 1]>> ELSE Itoa(n \div 10) \o <<Digits[(n % 10) + 1]>>

Num(n) == Tok("TOKEN_NUMBER", Itoa(n))
Flt(n, d) == Tok("TOKEN_NUMBER", Itoa(n) \o <<".">> \o Itoa(d))
Bool(b) == Tok("TOKEN_BOOL_LITERAL", IF b THEN LexTrue ELSE LexFalse)
Id(name) == Tok("TOKEN_IDENTIFIER", <<name>>)

IntLits == {Num(n) : n \in 0..MaxLit}
TermOpToks == {K(op) : op \in TermOps}
BinaryOps == TermOps \cup ComparisonOps \cup EqualityOps
                \cup {"TOKEN_AND", "TOKEN_XOR", "TOKEN_OR"}

Decl(type, name, e) == <<K(type), Id(name), K("TOKEN_ASSIGN")>> \o e \o <<K("TOKEN_SEMICOLON")>>
Paren(e) == <<K("TOKEN_LPAREN")>> \o e \o <<K("TOKEN_RPAREN")>>
Block(stmts) == <<K("TOKEN_LBRACE")>> \o stmts \o <<K("TOKEN_RBRACE")>>
If(c, then) == <<K("TOKEN_IF")>> \o Paren(c) \o Block(then)
IfElse(c, then, else) == If(c, then) \o <<K("TOKEN_ELSE")>> \o else

DeclTypes == {"TOKEN_INT", "TOKEN_FLOAT", "TOKEN_BOOL"}

\* operands: integer literals, a float literal, bool literals, an undeclared name
Atoms == IntLits \cup {Flt(1, 5), Bool(TRUE), Bool(FALSE), Id("u")}
\* a OP b, for every binary operator
Pairs == {<<a, K(op), b>> : a \in IntLits \cup {Flt(1, 5), Bool(TRUE)},
                            op \in BinaryOps, b \in IntLits \cup {Flt(1, 5)}}
\* a OP b OP c over integer literals, for the operators of parse_term
Chains == {<<a, o1, b, o2, c>> : a, b, c \in IntLits, o1 \in TermOpToks, o2 \in TermOpToks}
\* two operators of different levels, a parenthesised operand, a negation
Mixed == {<<a, K(o1), b, K(o2), c>> : a, b, c \in {Num(1), Num(2)},
              o1, o2 \in {"TOKEN_MINUS", "TOKEN_LT", "TOKEN_EQ", "TOKEN_AND", "TOKEN_OR"}}
         \cup {<<a, K(o1)>> \o Paren(<<b, K(o2), c>>) : a, b, c \in {Num(1), Num(2)},
              o1, o2 \in {"TOKEN_MINUS", "TOKEN_STAR"}}
         \cup {<<K("TOKEN_NOT"), a>> : a \in {Num(0), Num(1), Bool(TRUE)}}

\* one declaration
OneDecl == {Decl(t, "x", <<a>>) : t \in DeclTypes, a \in Atoms}
           \cup {Decl(t, "x", e) : t \in {"TOKEN_INT", "TOKEN_BOOL"}, e \in Pairs}
           \cup {Decl("TOKEN_INT", "x", e) : e \in Chains \cup Mixed}

\* a first declaration, and a second one that reads it (or an undeclared u)
FirstDecl == {Decl("TOKEN_INT", "x", <<Num(1)>>), Decl("TOKEN_BOOL", "x", <<Bool(TRUE)>>),
              Decl("TOKEN_BOOL", "x", <<Bool(FALSE)>>), Decl("TOKEN_FLOAT", "x", <<Flt(1, 5)>>)}
Reads == {<<Id("x")>>, <<Id("u")>>, <<K("TOKEN_NOT"), Id("x")>>}
         \cup {<<Id("x"), K(op), b>> : op \in BinaryOps, b \in {Id("x"), Flt(1, 5), Bool(TRUE)}}
         \cup {<<Id("x"), K("TOKEN_PLUS"), Id("x"), K("TOKEN_PLUS"), Id("x")>>,
               <<Id("x"), K("TOKEN_PLUS")>> \o Paren(<<Num(1), K("TOKEN_PLUS"), Num(1)>>)}
TwoDecls == {d \o Decl(t, n, e) : d \in FirstDecl, t \in DeclTypes, n \in {"x", "y"}, e \in Reads}

\* if statements, after a declaration of x and before an optional last statement
Conds == {<<Id("x")>>, <<Bool(TRUE)>>, <<Bool(FALSE)>>, <<Id("u")>>,
          <<Id("x"), K("TOKEN_EQ"), Num(1)>>}
Bodies == {<<>>, Decl("TOKEN_BOOL", "y", <<Bool(TRUE)>>), Decl("TOKEN_BOOL", "y", <<Id("x")>>),
           Decl("TOKEN_INT", "y", <<Num(2)>>)}
ElseBodies == {<<>>, Decl("TOKEN_BOOL", "z", <<Bool(FALSE)>>), Decl("TOKEN_INT", "y", <<Num(3)>>)}
IfStmts == {If(c, b) : c \in Conds, b \in Bodies}
           \cup {IfElse(c, b, Block(e)) : c \in Conds, b \in Bodies, e \in ElseBodies}
           \cup {IfElse(c, b, If(<<Bool(TRUE)>>, e)) : c \in Conds, b \in Bodies, e \in ElseBodies}
           \cup {If(<<Id("x")>>, If(<<Id("x")>>, b)) : b \in Bodies}
Lasts == {<<>>, Decl("TOKEN_BOOL", "w", <<Bool(TRUE)>>), Decl("TOKEN_BOOL", "w", <<Id("x")>>)}
WithIf == {d \o i \o l : d \in {Decl("TOKEN_BOOL", "x", <<Bool(TRUE)>>),
                                 Decl("TOKEN_BOOL", "x", <<Bool(FALSE)>>),
                                 Decl("TOKEN_INT", "x", <<Num(1)>>)},
                          i \in IfStmts, l \in Lasts}
          \cup {i \o i : i \in {If(<<Bool(TRUE)>>, <<>>)}}
          \cup {Decl("TOKEN_BOOL", "x", <<Bool(TRUE)>>) \o If(<<Id("x")>>, b) \o i :
                   b \in {<<>>, If(<<Bool(TRUE)>>, <<>>)},
                   i \in {If(<<Id("x")>>, <<>>), IfElse(<<Id("x")>>, <<>>, Block(<<>>)),
                          IfElse(<<Id("x")>>, <<>>, If(<<Bool(FALSE)>>, <<>>))}}

\* char and string literals: the same text under two types, and a text met twice
Chr(c) == Tok("TOKEN_CHAR_LITERAL", <<c>>)
Str(c) == Tok("TOKEN_STRING_LITERAL", <<c>>)
Texts == {Decl("TOKEN_CHAR", "x", <<a>>) \o Decl(t, "y", <<b>>) :
            a \in {Chr("a"), Chr("b")}, t \in {"TOKEN_CHAR", "TOKEN_STRING"},
            b \in {Chr("a"), Str("a"), Flt(1, 5), Bool(TRUE)}}

\* distinct literals in both operands, in both branches and after the if statement
Ordered == {Decl("TOKEN_FLOAT", "x", <<a, K("TOKEN_PLUS"), b>>)
               \o IfElse(<<Bool(TRUE)>>, Decl("TOKEN_CHAR", "y", <<Chr("a")>>),
                         Block(Decl("TOKEN_BOOL", "z", <<Bool(FALSE)>>)))
               \o Decl("TOKEN_BOOL", "w", <<c>>) :
              a, b \in {Flt(1, 5), Flt(2, 5)}, c \in {Bool(TRUE), Bool(FALSE)}}

\* arithmetic on operands of every type, under declared types that leave the
\* type of the initializer alone or coerce it
PromotionAtoms == {Num(1), Flt(1, 5), Bool(TRUE), Chr("a"), Id("u")}
Promotions == {Decl(t, "x", <<a, K(op), b>>) :
                 t \in {"TOKEN_FLOAT", "TOKEN_CHAR"}, a, b \in PromotionAtoms,
                 op \in {"TOKEN_PLUS", "TOKEN_SLASH"}}
              \cup {Decl("TOKEN_FLOAT", "x", <<a, K("TOKEN_PLUS"), b, K("TOKEN_STAR"), c>>) :
                      a, b, c \in {Num(1), Flt(1, 5), Id("u")}}

\* a name read before its declaration, and between two declarations of it
ForwardReads == {Decl(t, "y", <<Id("x")>>) \o d : t \in {"TOKEN_BOOL", "TOKEN_FLOAT"},
                   d \in {Decl("TOKEN_BOOL", "x", <<Bool(TRUE)>>),
                          Decl("TOKEN_FLOAT", "x", <<Flt(1, 5)>>)}}
                \cup {d1 \o Decl(t, "y", <<Id("x")>>) \o d2 : t \in {"TOKEN_BOOL", "TOKEN_FLOAT"},
                        d1, d2 \in {Decl("TOKEN_BOOL", "x", <<Bool(TRUE)>>),
                                    Decl("TOKEN_FLOAT", "x", <<Flt(1, 5)>>)}}

WellFormed == {<<>>} \cup OneDecl \cup TwoDecls \cup WithIf \cup Texts \cup Ordered
              \cup Promotions \cup ForwardReads

\* a well-formed source with the token at place i replaced by a token that
\* cannot stand there: the lexer's error token, or a closing parenthesis
Spoilable == {Decl("TOKEN_INT", "x", <<Num(1), K("TOKEN_PLUS"), Num(2)>>)
                 \o Decl("TOKEN_BOOL", "y", <<Id("x"), K("TOKEN_LT"), Num(2)>>),
              Decl("TOKEN_BOOL", "x", <<Bool(TRUE)>>)
                 \o IfElse(<<Id("x")>>, <<>>, Block(<<>>)),
              Decl("TOKEN_INT", "x", <<K("TOKEN_NOT")>> \o Paren(<<Num(1)>>))}
BadTokens == {Tok("TOKEN_ERROR", <<"@">>), K("TOKEN_RPAREN")}
\* single statements: a file that ends inside one of them is cut at the place
\* where the end marker then stands
Cuttable == {Decl("TOKEN_INT", "x", <<K("TOKEN_NOT")>> \o Paren(<<Num(1)>>)),
             Decl("TOKEN_BOOL", "y", <<Id("x"), K("TOKEN_LT"), Flt(1, 5)>>),
             If(<<Id("x")>>, Decl("TOKEN_BOOL", "y", <<Bool(TRUE)>>))}
Cut(toks, i) == SubSeq(toks, 1, i - 1)
Spoil(toks, i, t) == [toks EXCEPT ![i] = t]

(***************************************************************************)
(* The compiler process (main.c) and the run of what it emitted.           *)
(***************************************************************************)
VARIABLES
    source,           \* the token stream of the source file
    bad,              \* the place of the token that spoils the source, 0 for none
    pc,               \* where the pipeline stands
    frontend,         \* the parser that ran: parse_program or the statement parser
    requested,        \* tokens the parser has requested from the lexer
    program,          \* the AST parse_program returned
    output,           \* the lines written to output.s
    literals,         \* codegen.c: the static literal list
    literal_counter,  \* codegen.c: the static literal counter
    if_counter,       \* codegen.c: the static if counter of generate_program
    symbols,          \* a symbol table: the local of the outermost generate_program
    inserts,          \* the add_symbol calls that built it, oldest first
    error,            \* the fatal error the process reported
    exit_status,      \* the status the compiler process ended with, -1 while it runs
    machine           \* the run of the assembled program

vars == <<source, bad, pc, frontend, requested, program, output, literals, literal_counter,
          if_counter, symbols, inserts, error, exit_status, machine>>

NotRun == [MachineInit(<<>>) EXCEPT !.status = "not_run"]

Init ==
    /\ \/ source \in WellFormed /\ bad = 0
       \/ \E wf \in Spoilable, t \in BadTokens :
            /\ bad \in 1..MaxBad
            /\ bad <= Len(wf)
            /\ wf[bad] # t
            /\ source = Spoil(wf, bad, t)
       \/ \E wf \in Cuttable :
            /\ bad \in 2..MaxBad
            /\ bad <= Len(wf)
            /\ source = Cut(wf, bad)
    /\ pc = "start"
    /\ frontend = "none"
    /\ requested = 0
    /\ program = <<>>
    /\ output = <<>>
    /\ literals = <<>>
    /\ literal_counter = 0
    /\ if_counter = 0
    /\ symbols = <<>>
    /\ inserts = <<>>
    /\ error = "none"
    /\ exit_status = -1
    /\ machine = NotRun

\* the end of a parse: the AST goes on to main, or a syntax error ends the process
Parsed(r) ==
    /\ requested' = r.pos
    /\ IF r.ok
       THEN /\ program' = r.nodes
            /\ pc' = "parsed"
            /\ UNCHANGED <<error, exit_status>>
       ELSE /\ program' = <<>>
            /\ pc' = "exit"
            /\ error' = r.err
            /\ exit_status' = 1
    /\ UNCHANGED <<source, bad, output, literals, literal_counter, if_counter, symbols,
                   inserts, machine>>

\* main: parser_init and parse_program
Parse ==
    /\ pc = "start"
    /\ frontend' = "parse_program"
    /\ Parsed(parse_program(source))

\* main with a parser whose top-level loop calls parse_statement
ParseStatements ==
    /\ pc = "start"
    /\ frontend' = "parse_statement"
    /\ Parsed(parse_statements(source))

\* the static state of codegen.c as a generator state, and back
Generator == [out |-> output, literals |-> literals, literal_counter |-> literal_counter,
              if_counter |-> if_counter, status |-> "ok"]
Generated(g) ==
    /\ output' = g.out
    /\ literals' = g.literals
    /\ literal_counter' = g.literal_counter
    /\ if_counter' = g.if_counter

\* the add_symbol calls generate_data_section makes for a statement list
RECURSIVE Declarations(_, _)
Declarations(nodes, i) ==
    IF i > Len(nodes) THEN <<>>
    ELSE (IF nodes[i].type = "AST_VAR_DECL"
          THEN <<[name |-> nodes[i].name, type |-> nodes[i].var_type]>> ELSE <<>>)
         \o Declarations(nodes, i + 1)

\* main: output.s is opened; generate_program starts with collect_literals
Collect ==
    /\ pc = "parsed"
    /\ Generated(collect_list(Generator, program, 1))
    /\ pc' = "collected"
    /\ UNCHANGED <<source, bad, frontend, requested, program, symbols, inserts, error,
                   exit_status, machine>>

\* generate_program: the sections and the statements, or a fatal error
Lower ==
    /\ pc = "collected"
    /\ LET g == generate_body(Generator, program) IN
       /\ Generated(g)
       /\ IF g.status = "ok"
          THEN pc' = "lowered" /\ UNCHANGED <<error, exit_status>>
          ELSE pc' = "exit" /\ exit_status' = 1 /\ error' = g.status
    /\ symbols' = generate_data_section([g |-> GenInit, symbols |-> <<>>], program, 1).symbols
    /\ inserts' = Declarations(program, 1)
    /\ UNCHANGED <<source, bad, frontend, requested, program, machine>>

\* generate_program: the exit code and the freeing of the literals; main returns 0
Finish ==
    /\ pc = "lowered"
    /\ Generated(generate_epilogue(Generator))
    /\ pc' = "generated"
    /\ exit_status' = 0
    /\ UNCHANGED <<source, bad, frontend, requested, program, symbols, inserts, error, machine>>

\* the emitted program is assembled, linked and run
Run ==
    /\ pc = "generated"
    /\ machine' = RunProgram(output)
    /\ pc' = "ran"
    /\ UNCHANGED <<source, bad, frontend, requested, program, output, literals, literal_counter,
                   if_counter, symbols, inserts, error, exit_status>>

Next == Parse \/ ParseStatements \/ Collect \/ Lower \/ Finish \/ Run

Spec == Init /\ [][Next]_vars

(***************************************************************************)
(* The symbol table on its own (symbol.c): any sequence of add_symbol      *)
(* calls, whatever the caller.                                             *)
(***************************************************************************)
MaxSymbols == 4
SymbolNames == {"x", "y", "z"}
SymbolTypes == {"TYPE_INT", "TYPE_FLOAT", "TYPE_BOOL"}

SymbolInit ==
    /\ source = <<>>
    /\ bad = 0
    /\ pc = "symbols"
    /\ frontend = "none"
    /\ requested = 0
    /\ program = <<>>
    /\ output = <<>>
    /\ literals = <<>>
    /\ literal_counter = 0
    /\ if_counter = 0
    /\ symbols = <<>>
    /\ inserts = <<>>
    /\ error = "none"
    /\ exit_status = -1
    /\ machine = NotRun

\* table = add_symbol(table, name, type)
AddSymbol(name, type) ==
    /\ pc = "symbols"
    /\ Len(inserts) < MaxSymbols
    /\ symbols' = add_symbol(symbols, name, type)
    /\ inserts' = Append(inserts, [name |-> name, type |-> type])
    /\ UNCHANGED <<source, bad, pc, frontend, requested, program, output, literals,
                   literal_counter, if_counter, error, exit_status, machine>>

SymbolNext == \E name \in SymbolNames, type \in SymbolTypes : AddSymbol(name, type)

SymbolSpec == SymbolInit /\ [][SymbolNext]_vars

(***************************************************************************)
(* What the properties below speak about: how the pipeline ended, what the *)
(* run left behind, and the standard meaning of the operators.             *)
(***************************************************************************)
ParseErrors == {"expect", "unexpected_token", "type_keyword"}

\* the compiler has ended and, when it wrote output.s, the program has run
Ended == pc \in {"exit", "ran"}

\* the emitted program ran to its ret with v in rax
Returned(v) == pc = "ran" /\ machine.status = "returned" /\ machine.rax = Quad(v)

VarX == NameLabel(<<"x">>)
VarY == NameLabel(<<"y">>)
VarZ == NameLabel(<<"z">>)

\* the emitted program ran to its ret and left v in the storage of the variable
Holds(var, v) ==
    /\ pc = "ran"
    /\ machine.status = "returned"
    /\ var \in DOMAIN machine.mem
    /\ machine.mem[var] = v

\* standard integer semantics: division truncates toward zero; a comparison is 0 or 1
IntOp(op, a, b) ==
    CASE op = "TOKEN_PLUS" -> a + b
      [] op = "TOKEN_MINUS" -> a - b
      [] op = "TOKEN_STAR" -> a * b
      [] op = "TOKEN_SLASH" -> TruncDiv(a, b)
      [] op = "TOKEN_EQ" -> IF a = b THEN 1 ELSE 0
      [] op = "TOKEN_NEQ" -> IF a # b THEN 1 ELSE 0
      [] op = "TOKEN_LT" -> IF a < b THEN 1 ELSE 0
      [] op = "TOKEN_LEQ" -> IF a <= b THEN 1 ELSE 0
      [] op = "TOKEN_GT" -> IF a > b THEN 1 ELSE 0
      [] OTHER -> IF a >= b THEN 1 ELSE 0
Defined2(op, a, b) == op # "TOKEN_SLASH" \/ b # 0

Additive == {"TOKEN_PLUS", "TOKEN_MINUS"}
Multiplicative == {"TOKEN_STAR", "TOKEN_SLASH"}

\* a op1 b op2 c as arithmetic reads it: * and / before + and -, else left to right
RightFirst(op1, op2) == op1 \in Additive /\ op2 \in Multiplicative
ChainDefined(a, op1, b, op2, c) ==
    IF RightFirst(op1, op2) THEN Defined2(op2, b, c)
    ELSE Defined2(op1, a, b) /\ Defined2(op2, IntOp(op1, a, b), c)
ChainValue(a, op1, b, op2, c) ==
    IF RightFirst(op1, op2) THEN IntOp(op1, a, IntOp(op2, b, c))
    ELSE IntOp(op2, IntOp(op1, a, b), c)

\* the source is the one declaration `int x = e;' with an e of n tokens
IntDeclOf(n) ==
    /\ bad = 0
    /\ Len(source) = n + 4
    /\ SubSeq(source, 1, 3) = <<K("TOKEN_INT"), Id("x"), K("TOKEN_ASSIGN")>>
    /\ source[n + 4] = K("TOKEN_SEMICOLON")
\* the token at place i is an integer literal; the integer it denotes
IntAt(i) == source[i].type = "TOKEN_NUMBER" /\ ~strchr_dot(source[i].lexeme)
NumAt(i) == Immediate(source[i].lexeme)
OpAt(i) == source[i].type
\* the initializer is the literal a, the pair a op b, the chain a op1 b op2 c
LiteralSource == IntDeclOf(1) /\ IntAt(4)
BinarySource == IntDeclOf(3) /\ IntAt(4) /\ OpAt(5) \in BinaryOps /\ IntAt(6)
ChainSource ==
    /\ IntDeclOf(5)
    /\ IntAt(4) /\ OpAt(5) \in BinaryOps /\ IntAt(6) /\ OpAt(7) \in BinaryOps /\ IntAt(8)

\* C1: for a sequence of int declarations with integer initializers the emitted
\* code returns with the value of the last declared variable in rax (0 for the
\* empty program): a literal, a op b, a op1 b op2 c, and a copy of a variable
C1_RaxIsLastVariable ==
    (Ended /\ bad = 0) =>
       /\ source = <<>> => Returned(0)
       /\ LiteralSource => Returned(NumAt(4))
       /\ (BinarySource /\ OpAt(5) \in TermOps /\ Defined2(OpAt(5), NumAt(4), NumAt(6)))
             => Returned(IntOp(OpAt(5), NumAt(4), NumAt(6)))
       /\ (ChainSource /\ OpAt(5) \in TermOps /\ OpAt(7) \in TermOps
              /\ ChainDefined(NumAt(4), OpAt(5), NumAt(6), OpAt(7), NumAt(8)))
             => Returned(ChainValue(NumAt(4), OpAt(5), NumAt(6), OpAt(7), NumAt(8)))
       /\ source = Decl("TOKEN_INT", "x", <<Num(1)>>) \o Decl("TOKEN_INT", "y", <<Id("x")>>)
             => Returned(1)

\* the value of an integer expression tree under the standard semantics
RECURSIVE AstValue(_)
AstValue(node) ==
    IF node.type = "AST_BINARY_EXPR"
    THEN IntOp(node.op, AstValue(node.left), AstValue(node.right))
    ELSE Immediate(node.value)

IsLiteral(node, lexeme) == node.type = "AST_LITERAL" /\ node.value = lexeme
IsBinary(node, op) == node.type = "AST_BINARY_EXPR" /\ node.op = op

\* C2: the parser builds a + b * c (and a - b / c) with the * or / node as the
\* right operand of the + or - node, so the tree has the value a + (b * c)
C2_MultiplicationBindsTighter ==
    (frontend # "none" /\ ChainSource /\ RightFirst(OpAt(5), OpAt(7)))
       => /\ Len(program) = 1
          /\ IsBinary(program[1].value, OpAt(5))
          /\ IsLiteral(program[1].value.left, source[4].lexeme)
          /\ IsBinary(program[1].value.right, OpAt(7))
          /\ Defined2(OpAt(7), NumAt(6), NumAt(8)) =>
               AstValue(program[1].value)
                  = IntOp(OpAt(5), NumAt(4), IntOp(OpAt(7), NumAt(6), NumAt(8)))

SameLevel(op1, op2) ==
    \E level \in {Additive, Multiplicative, ComparisonOps, EqualityOps,
                  {"TOKEN_AND"}, {"TOKEN_OR"}} : op1 \in level /\ op2 \in level

\* C3: a chain a op1 b op2 c of operators of one level parses as (a op1 b) op2 c,
\* and the emitted integer code stores the value of the chain read left to right
C3_LeftAssociative ==
    (frontend # "none" /\ ChainSource /\ SameLevel(OpAt(5), OpAt(7)))
       => /\ Len(program) = 1
          /\ IsBinary(program[1].value, OpAt(7))
          /\ IsBinary(program[1].value.left, OpAt(5))
          /\ IsLiteral(program[1].value.right, source[8].lexeme)
          /\ (Ended /\ OpAt(5) \in TermOps /\ Defined2(OpAt(5), NumAt(4), NumAt(6))
                    /\ Defined2(OpAt(7), IntOp(OpAt(5), NumAt(4), NumAt(6)), NumAt(8)))
               => Holds(VarX, Quad(IntOp(OpAt(7), IntOp(OpAt(5), NumAt(4), NumAt(6)),
                                         NumAt(8))))

\* the variables the run has stored into
StoredVars == {machine.stores[i].l : i \in DOMAIN machine.stores}

\* `bool x = d; if (c) { bool y = true; } else { bool z = false; }' and a last statement
ThenY == Decl("TOKEN_BOOL", "y", <<Bool(TRUE)>>)
ElseZ == Decl("TOKEN_BOOL", "z", <<Bool(FALSE)>>)
IfElseSource(d, c, l) ==
    Decl("TOKEN_BOOL", "x", <<Bool(d)>>) \o IfElse(c, ThenY, Block(ElseZ)) \o l
\* the condition c is x, true or false: whether it is non-zero when x is d
CondHolds(d, c) == c = <<Bool(TRUE)>> \/ (c = <<Id("x")>> /\ d)

\* C4: the code emitted for an if statement with an else branch performs the
\* stores of the then branch and none of the else branch when the condition is
\* non-zero, and the stores of the else branch and none of the then branch when
\* it is zero
C4_BranchTaken ==
    \A d \in BOOLEAN : \A c \in {<<Id("x")>>, <<Bool(TRUE)>>, <<Bool(FALSE)>>} :
    \A l \in Lasts :
       (Ended /\ bad = 0 /\ source = IfElseSource(d, c, l))
          => /\ pc = "ran"
             /\ machine.status # "assembly_error"
             /\ IF CondHolds(d, c)
                THEN VarY \in StoredVars /\ VarZ \notin StoredVars
                ELSE VarZ \in StoredVars /\ VarY \notin StoredVars

\* the names an expression or a statement reads, and those a statement declares
RECURSIVE UsedNames(_)
UsedNames(node) ==
    CASE node.type = "AST_IDENTIFIER" -> {node.name}
      [] node.type = "AST_BINARY_EXPR" -> UsedNames(node.left) \cup UsedNames(node.right)
      [] node.type = "AST_UNARY_EXPR" -> UsedNames(node.operand)
      [] node.type = "AST_VAR_DECL" -> UsedNames(node.value)
      [] node.type = "AST_IF_STATEMENT" ->
           UsedNames(node.condition)
              \cup UNION {UsedNames(node.then_branch[i]) : i \in DOMAIN node.then_branch}
              \cup UNION {UsedNames(node.else_branch[i]) : i \in DOMAIN node.else_branch}
      [] OTHER -> {}
RECURSIVE DeclaredNames(_)
DeclaredNames(node) ==
    CASE node.type = "AST_VAR_DECL" -> {node.name}
      [] node.type = "AST_IF_STATEMENT" ->
           UNION {DeclaredNames(node.then_branch[i]) : i \in DOMAIN node.then_branch}
              \cup UNION {DeclaredNames(node.else_branch[i]) : i \in DOMAIN node.else_branch}
      [] OTHER -> {}
UsedInProgram == UNION {UsedNames(program[i]) : i \in DOMAIN program}
DeclaredInProgram == UNION {DeclaredNames(program[i]) : i \in DOMAIN program}

\* generate_program has been called on the program
CodegenRan == pc \in {"generated", "ran"} \/ (pc = "exit" /\ error \notin ParseErrors)

\* C5: when an initializer or an if condition reads a name that no declaration
\* of the program declares, code generation ends with the undefined-variable
\* error and a non-zero status
C5_UndefinedVariableIsFatal ==
    (CodegenRan /\ ~(UsedInProgram \subseteq DeclaredInProgram))
       => pc = "exit" /\ error = "undefined_variable" /\ exit_status # 0

\* C6: code generation never stops with a literal-not-found error: every
\* literal whose label is requested was registered by the collector
C6_LiteralLookupSucceeds == error # "literal_not_found"

\* the if node made of the parses of its parts
IfNodeOf(c, b, else_branch) ==
    create_if_statement_node(parse_expression(c, 1).node, parse_program(b).nodes,
                             else_branch)
\* the statements before and after the if statement of a source
Before == {Decl("TOKEN_BOOL", "x", <<Bool(TRUE)>>), Decl("TOKEN_BOOL", "x", <<Bool(FALSE)>>),
           Decl("TOKEN_INT", "x", <<Num(1)>>)}
Around(d, node, l) == parse_program(d).nodes \o <<node>> \o parse_program(l).nodes

\* C7: parse_program accepts declarations mixed with if statements; an if
\* statement, with no else, an else block or an else-if, becomes one IfStatement
\* node holding the condition, the then block and the else branch, in its place
\* in the sequence
C7_IfStatementsAccepted ==
    (frontend = "parse_program" /\ bad = 0 /\ Len(source) > 5
        /\ source[6].type = "TOKEN_IF")
       => /\ error \notin ParseErrors
          /\ \A d \in Before : \A c \in Conds : \A b \in Bodies : \A l \in Lasts :
               /\ source = d \o If(c, b) \o l
                    => program = Around(d, IfNodeOf(c, b, <<>>), l)
               /\ \A e \in ElseBodies :
                    /\ source = d \o IfElse(c, b, Block(e)) \o l
                         => program = Around(d, IfNodeOf(c, b, parse_program(e).nodes), l)
                    /\ source = d \o IfElse(c, b, If(<<Bool(TRUE)>>, e)) \o l
                         => program = Around(d, IfNodeOf(c, b,
                                          <<IfNodeOf(<<Bool(TRUE)>>, e, <<>>)>>), l)

\* the first `if' of the source, which parse_program cannot take; 0 for none
IfPlaces == {i \in DOMAIN source : source[i].type = "TOKEN_IF"}
\* the tokens that fail an expectation of the parser that ran
FailTokens ==
    (IF bad # 0 THEN {bad} ELSE {})
       \cup (IF frontend = "parse_program" THEN IfPlaces ELSE {})
FirstFailing == CHOOSE i \in FailTokens : \A j \in FailTokens : i <= j

\* C8: on the first token that fails an expectation the parser ends the
\* compilation with a non-zero status: that token is the last one requested, no
\* AST is returned, the code generator is not called and nothing is written
C8_ParserStopsAtFirstFailure ==
    (frontend # "none" /\ FailTokens # {})
       => /\ pc = "exit"
          /\ error \in ParseErrors
          /\ exit_status = 1
          /\ requested = FirstFailing
          /\ program = <<>>
          /\ output = <<>>
          /\ literals = <<>> /\ literal_counter = 0
          /\ machine = NotRun

\* a lexer error token in the middle of an expression stopped the parser there
C8_Witness ==
    /\ pc = "exit"
    /\ bad > 3
    /\ lexer_next_token(source, bad).type = "TOKEN_ERROR"
    /\ requested = bad
    /\ error = "unexpected_token"
    /\ output = <<>>

\* the source is the one declaration `bool x = e;' with an e of n tokens
BoolDeclOf(n) ==
    /\ bad = 0
    /\ Len(source) = n + 4
    /\ SubSeq(source, 1, 3) = <<K("TOKEN_BOOL"), Id("x"), K("TOKEN_ASSIGN")>>
    /\ source[n + 4] = K("TOKEN_SEMICOLON")

\* C9: the code emitted for a op b, op one of == != < > <= >=, leaves 1 when
\* a op b holds and 0 when it does not, and that is what the declaration stores
C9_ComparisonYieldsOneOrZero ==
    (Ended /\ (IntDeclOf(3) \/ BoolDeclOf(3)) /\ IntAt(4) /\ IntAt(6)
        /\ OpAt(5) \in ComparisonOps \cup EqualityOps)
       => Holds(VarX, Quad(IntOp(OpAt(5), NumAt(4), NumAt(6))))

\* the result types of the + - * / nodes of an expression or statement
RECURSIVE ArithTypes(_)
ArithTypes(node) ==
    CASE node.type = "AST_BINARY_EXPR" ->
           (IF node.op \in TermOps THEN {node.result_type} ELSE {})
              \cup ArithTypes(node.left) \cup ArithTypes(node.right)
      [] node.type = "AST_UNARY_EXPR" -> ArithTypes(node.operand)
      [] node.type = "AST_VAR_DECL" -> ArithTypes(node.value)
      [] node.type = "AST_IF_STATEMENT" ->
           ArithTypes(node.condition)
              \cup UNION {ArithTypes(node.then_branch[i]) : i \in DOMAIN node.then_branch}
              \cup UNION {ArithTypes(node.else_branch[i]) : i \in DOMAIN node.else_branch}
      [] OTHER -> {}
ArithTypesOfProgram == UNION {ArithTypes(program[i]) : i \in DOMAIN program}

IntegerOpcodes == ArithOps \cup {"cqo", "idiv rbx", "push rax", "pop rbx"}

\* C10: an arithmetic node whose result_type is float is lowered with floating
\* opcodes on the floating registers, not with the integer ones, so that
\* `int x = 1; float y = x + 1.5;' stores 2.5 in y (and 3.0 when x is 1.5)
C10_FloatLowering ==
    /\ (pc \in {"generated", "ran"} /\ ArithTypesOfProgram = {"TYPE_FLOAT"})
          => \A i \in DOMAIN output : output[i].op \notin IntegerOpcodes
    /\ (Ended /\ bad = 0)
          => /\ source = Decl("TOKEN_INT", "x", <<Num(1)>>)
                            \o Decl("TOKEN_FLOAT", "y", <<Id("x"), K("TOKEN_PLUS"), Flt(1, 5)>>)
                   => Holds(VarY, Double(<<"2", ".", "5">>))
             /\ source = Decl("TOKEN_FLOAT", "x", <<Flt(1, 5)>>)
                            \o Decl("TOKEN_FLOAT", "y", <<Id("x"), K("TOKEN_PLUS"), Flt(1, 5)>>)
                   => Holds(VarY, Double(<<"3", ".", "0">>))

(***************************************************************************)
(* The literal table.                                                      *)
(***************************************************************************)
\* C11: a second run of the literal collector over the AST it has just
\* collected leaves the literal table as it was: no entry is added, and
\* every (text, type) pair keeps its label
C11_CollectorIdempotent ==
    pc = "collected" => collect_list(Generator, program, 1) = Generator

\* the collector has registered at least two literals
C11_Witness == pc = "collected" /\ Len(literals) >= 2

\* the literals of a node in pre-order, left before right, as (text, type) pairs
RECURSIVE Literals(_)
RECURSIVE LiteralsOfList(_, _)
Literals(node) ==
    CASE node.type = "AST_LITERAL" -> <<[value |-> node.value, type |-> node.result_type]>>
      [] node.type = "AST_BINARY_EXPR" -> Literals(node.left) \o Literals(node.right)
      [] node.type = "AST_UNARY_EXPR" -> Literals(node.operand)
      [] node.type = "AST_VAR_DECL" -> Literals(node.value)
      [] node.type = "AST_IF_STATEMENT" ->
           Literals(node.condition) \o LiteralsOfList(node.then_branch, 1)
                                    \o LiteralsOfList(node.else_branch, 1)
      [] OTHER -> <<>>
LiteralsOfList(nodes, i) ==
    IF i > Len(nodes) THEN <<>> ELSE Literals(nodes[i]) \o LiteralsOfList(nodes, i + 1)

NonIntTypes == {"TYPE_FLOAT", "TYPE_BOOL", "TYPE_CHAR", "TYPE_STRING"}
KeyOf(lit) == [value |-> lit.value, type |-> lit.type]
Range(seq) == {seq[i] : i \in DOMAIN seq}
\* the (text, type) pairs of the float, bool, char and string literals of the program
NonIntLiterals == {k \in Range(LiteralsOfList(program, 1)) : k.type \in NonIntTypes}

\* C12: after collection the table holds exactly one entry for every distinct
\* (text, type) pair among the float, bool, char and string literals of the
\* AST and none for an integer literal, and two entries share a label
\* exactly when they have the same text and type
C12_OneEntryPerDistinctLiteral ==
    pc = "collected" =>
        /\ {KeyOf(literals[i]) : i \in DOMAIN literals} = NonIntLiterals
        /\ \A i \in DOMAIN literals : literals[i].type # "TYPE_INT"
        /\ \A i, j \in DOMAIN literals :
              /\ KeyOf(literals[i]) = KeyOf(literals[j]) => i = j
              /\ literals[i].label = literals[j].label
                   <=> KeyOf(literals[i]) = KeyOf(literals[j])

\* an integer literal was passed over, a literal met twice was entered once,
\* and two entries were made
C12_Witness ==
    /\ pc = "collected"
    /\ Len(literals) >= 2
    /\ \E k \in Range(LiteralsOfList(program, 1)) : k.type = "TYPE_INT"
    /\ Len(SelectSeq(LiteralsOfList(program, 1), LAMBDA k : k.type \in NonIntTypes))
         > Len(literals)

(***************************************************************************)
(* The symbol table.                                                       *)
(***************************************************************************)
\* the place in the call history of the last add_symbol for the name, 0 for none
LastInsert(name) ==
    LET calls == {i \in DOMAIN inserts : inserts[i].name = name}
    IN  IF calls = {} THEN 0 ELSE CHOOSE i \in calls : \A j \in calls : j <= i

\* what lookup_symbol returns for the name: the entry, or NullNode for NULL
Lookup(table, name) ==
    IF lookup_symbol(table, name) = 0 THEN NullNode
    ELSE table[lookup_symbol(table, name)]

\* C13: after any sequence of add_symbol calls, lookup_symbol returns for every
\* name the entry of the most recent call for that name and NULL for a name
\* never inserted, and a call for one name leaves the result of the lookup
\* of every other name as it was
C13_LookupReturnsLastInsert ==
    /\ [](\A name \in SymbolNames \cup {"u"} :
            Lookup(symbols, name) = IF LastInsert(name) = 0 THEN NullNode
                                    ELSE inserts[LastInsert(name)])
    /\ [][\A name \in SymbolNames \cup {"u"} :
            (inserts' # inserts /\ inserts'[Len(inserts')].name # name)
               => Lookup(symbols', name) = Lookup(symbols, name)]_vars

\* a name was inserted twice with different types, with another name in between
C13_Witness ==
    /\ pc = "symbols"
    /\ \E i, j, k \in DOMAIN inserts :
          /\ i < j /\ j < k
          /\ inserts[i].name = inserts[k].name
          /\ inserts[i].type # inserts[k].type
          /\ inserts[j].name # inserts[i].name
    /\ \E name \in SymbolNames : LastInsert(name) = 0

(***************************************************************************)
(* The layout of the output and the lowering of if statements.             *)
(***************************************************************************)
Emitted == pc \in {"lowered", "generated", "ran"}
Places(op) == {i \in DOMAIN output : output[i].op = op}
Once(op) == Cardinality(Places(op)) = 1
PlaceOf(op) == CHOOSE i \in Places(op) : TRUE

\* C14: for every program, with if statements or without, the output has the
\* read-only section, the data section and the text section exactly once
\* each and in this order, and defines main exactly once: the code of a
\* branch is emitted without a second prologue
C14_SectionsOnce ==
    Emitted =>
        /\ Once(".section .rodata") /\ Once(".data") /\ Once(".text")
        /\ Once(".global main")
        /\ PlaceOf(".section .rodata") < PlaceOf(".data")
        /\ PlaceOf(".data") < PlaceOf(".text")
        /\ Cardinality(Definitions(output, MainLabel)) = 1

ArithmeticOps == {"TOKEN_PLUS", "TOKEN_MINUS", "TOKEN_STAR", "TOKEN_SLASH"}

\* an expression tree of + - * / over integer literals, nested on either side
RECURSIVE IntTree(_)
IntTree(node) ==
    CASE node.type = "AST_LITERAL" -> node.result_type = "TYPE_INT"
      [] node.type = "AST_BINARY_EXPR" ->
           node.op \in ArithmeticOps /\ IntTree(node.left) /\ IntTree(node.right)
      [] OTHER -> FALSE

\* no division of the tree divides by zero
RECURSIVE TreeDefined(_)
TreeDefined(node) ==
    node.type = "AST_BINARY_EXPR" =>
        /\ TreeDefined(node.left)
        /\ TreeDefined(node.right)
        /\ Defined2(node.op, AstValue(node.left), AstValue(node.right))

\* C15: for an integer expression tree of + - * / nested to any depth on
\* either side, the emitted code leaves the value of left op right in rax,
\* which the declaration stores: the right operand is evaluated first and
\* saved, and the evaluation of the left operand does not disturb it
C15_BinaryLeavesLeftOpRight ==
    (/\ Ended /\ bad = 0
     /\ Len(program) = 1
     /\ program[1].type = "AST_VAR_DECL"
     /\ program[1].var_type = "TYPE_INT"
     /\ program[1].value.type = "AST_BINARY_EXPR"
     /\ IntTree(program[1].value)
     /\ TreeDefined(program[1].value))
        => Holds(VarX, Quad(AstValue(program[1].value)))

VarW == NameLabel(<<"w">>)

\* declaration of x, an if statement on x, a declaration of w
IfThenLast ==
    /\ bad = 0
    /\ Len(program) = 3
    /\ program[1].type = "AST_VAR_DECL" /\ program[1].name = <<"x">>
    /\ program[1].value.type = "AST_LITERAL" /\ program[1].value.result_type = "TYPE_BOOL"
    /\ program[2].type = "AST_IF_STATEMENT"
    /\ program[2].condition.type = "AST_IDENTIFIER"
    /\ program[2].condition.name = <<"x">>
    /\ program[3].type = "AST_VAR_DECL" /\ program[3].name = <<"w">>

\* the value the last declaration gives w: a bool literal, or x
LastValue ==
    LET v == program[3].value
        b == IF v.type = "AST_LITERAL" THEN v.value ELSE program[1].value.value
    IN  Quad(IF b = LexTrue THEN 1 ELSE 0)

\* the places of the output between the label of a taken branch and the
\* jump that leaves it
BranchPlaces(n) ==
    {i \in DOMAIN output :
       \E a, b \in DOMAIN output :
          /\ a < i /\ i < b
          /\ output[a].op = "%s:" /\ output[a].l = IfLabel("L_if_true", n)
          /\ output[b].op = "jmp %s" /\ output[b].l = IfLabel("L_if_end", n)}

\* C16: after the branch of an if statement has run, the then branch or the
\* else branch, control reaches the end label of the statement and the
\* statements after it are executed: no ret stands inside a branch, and the
\* run stores the value of the declaration that follows the if statement
C16_ControlReachesEnd ==
    /\ Emitted => \A n \in 0..if_counter :
                     \A i \in BranchPlaces(n) : output[i].op # "ret"
    /\ (Ended /\ IfThenLast) => Holds(VarW, LastValue)

\* the names declared at top level, and the names read inside the branches
\* of the if statements of the program
TopLevelNames == {program[i].name : i \in {j \in DOMAIN program : program[j].type = "AST_VAR_DECL"}}
UsedInList(nodes) == UNION {UsedNames(nodes[i]) : i \in DOMAIN nodes}
UsedInBranches ==
    UNION {UsedInList(program[i].then_branch) \cup UsedInList(program[i].else_branch) :
             i \in {j \in DOMAIN program : program[j].type = "AST_IF_STATEMENT"}}

\* C17: an identifier read inside the branch of an if statement and declared
\* at top level resolves: when every name the program reads is declared at
\* top level, code generation does not end with the undefined-variable error
C17_BranchSeesTopLevelNames ==
    (UsedInBranches # {} /\ UsedInProgram \subseteq TopLevelNames)
        => error # "undefined_variable"

\* code generation has gone through the statements, to their end or to a fatal error
Lowered == pc = "lowered" \/ (pc = "exit" /\ error \notin ParseErrors \cup {"none"})

\* C18: the literal table is read-only during code generation: from the end
\* of collection to the last top-level statement no entry is added, removed
\* or relabelled, also while branches are lowered, so a float, bool, char or
\* string literal in a statement after an if statement is found in it
C18_LiteralTableReadOnly ==
    /\ Lowered =>
         /\ literals = collect_list(GenInit, program, 1).literals
         /\ literal_counter = collect_list(GenInit, program, 1).literal_counter
    /\ (\A k \in Range(LiteralsOfList(program, 1)) : k.type \in NonIntTypes)
         => error # "literal_not_found"

IfLabelKinds == {"L_if_true", "L_if_else", "L_if_end"}
\* the places of the output that define a label of an if statement
IfLabelPlaces(kind) == {i \in DOMAIN output : output[i].op = "%s:" /\ output[i].l.k = kind}

\* the if statements of a statement list, those inside branches included
RECURSIVE IfCount(_, _)
IfCount(nodes, i) ==
    IF i > Len(nodes) THEN 0
    ELSE (IF nodes[i].type = "AST_IF_STATEMENT"
          THEN 1 + IfCount(nodes[i].then_branch, 1) + IfCount(nodes[i].else_branch, 1)
          ELSE 0)
         + IfCount(nodes, i + 1)

\* C19: every if statement lowered gets a counter suffix of its own: no label
\* L_if_true_N, L_if_else_N or L_if_end_N is defined twice, there are as
\* many suffixes as if statements, and every jump emitted goes to a label
\* that the output defines
C19_IfLabelsDistinct ==
    Emitted =>
        /\ \A kind \in IfLabelKinds : \A i, j \in IfLabelPlaces(kind) :
              output[i].l = output[j].l => i = j
        /\ Cardinality({output[i].l.i : i \in IfLabelPlaces("L_if_true")})
              = IfCount(program, 1)
        /\ \A i \in DOMAIN output :
              output[i].op \in {"je %s", "jmp %s"} => output[i].l \in Defined(output)

\* three if statements were lowered, one inside a branch and one with an else branch
C19_Witness ==
    /\ Emitted
    /\ IfCount(program, 1) >= 3
    /\ IfCount(program, 1) > Cardinality({i \in DOMAIN program :
                                             program[i].type = "AST_IF_STATEMENT"})
    /\ IfLabelPlaces("L_if_else") # {}

\* the distinct elements of a sequence, each at the place where it is first met
RECURSIVE FirstMet(_, _)
FirstMet(seq, i) ==
    IF i = 0 THEN <<>>
    ELSE IF \E j \in 1..(i - 1) : seq[j] = seq[i] THEN FirstMet(seq, i - 1)
    ELSE Append(FirstMet(seq, i - 1), seq[i])

\* the distinct float, bool, char and string literals of the program in the
\* order of a pre-order walk, left operand before right, a statement before the next
NonIntInOrder ==
    FirstMet(SelectSeq(LiteralsOfList(program, 1), LAMBDA k : k.type \in NonIntTypes),
             Len(SelectSeq(LiteralsOfList(program, 1), LAMBDA k : k.type \in NonIntTypes)))

\* C20: in a compilation the k-th distinct non-int (text, type) literal met in
\* a pre-order, left-to-right walk of the AST gets the label L_literal_k,
\* counted from 0
C20_LabelsInTraversalOrder ==
    pc = "collected" =>
        /\ Len(literals) = Len(NonIntInOrder)
        /\ \A k \in DOMAIN NonIntInOrder :
              \E i \in DOMAIN literals :
                 /\ KeyOf(literals[i]) = NonIntInOrder[k]
                 /\ literals[i].label = [k |-> "L_literal", n |-> <<>>, i |-> k - 1]

\* five distinct literals were labelled, two of them the operands of one
\* expression and two in the branches of an if statement, and one was met again
C20_Witness ==
    /\ pc = "collected"
    /\ Len(literals) >= 5
    /\ Len(LiteralsOfList(program, 1)) > Len(literals)
    /\ program[1].value.type = "AST_BINARY_EXPR"
    /\ program[1].value.left # program[1].value.right

(***************************************************************************)
(* The types the parser gives the nodes of the AST.                        *)
(***************************************************************************)
\* the nodes of a tree: the node itself and the nodes below it
RECURSIVE Subtrees(_)
Subtrees(node) ==
    {node} \cup
    CASE node.type = "AST_BINARY_EXPR" -> Subtrees(node.left) \cup Subtrees(node.right)
      [] node.type = "AST_UNARY_EXPR" -> Subtrees(node.operand)
      [] node.type = "AST_VAR_DECL" -> Subtrees(node.value)
      [] node.type = "AST_IF_STATEMENT" ->
           Subtrees(node.condition)
              \cup UNION {Subtrees(node.then_branch[i]) : i \in DOMAIN node.then_branch}
              \cup UNION {Subtrees(node.else_branch[i]) : i \in DOMAIN node.else_branch}
      [] OTHER -> {}
NodesOfProgram == UNION {Subtrees(program[i]) : i \in DOMAIN program}

\* C21: in every AST the parser returns, every binary expression node and
\* every unary expression node has a result_type other than unknown
C21_ExpressionTypesResolved ==
    \A n \in NodesOfProgram :
        n.type \in {"AST_BINARY_EXPR", "AST_UNARY_EXPR"} => n.result_type # "TYPE_UNKNOWN"

IsIdentifier(node) == node.type = "AST_IDENTIFIER"

\* C22: an identifier node has result_type int at the moment it is combined
\* into an enclosing expression or used as an initializer, whatever the
\* declared type of its variable; read off the AST at the places where
\* nothing changes the type after that moment: the operands of comparison,
\* equality and logical nodes, and the initializer of a declaration that is
\* not of type bool
C22_IdentifierDefaultsToInt ==
    \A n \in NodesOfProgram :
        /\ (n.type = "AST_BINARY_EXPR" /\ n.op \notin TermOps) =>
              /\ IsIdentifier(n.left) => n.left.result_type = "TYPE_INT"
              /\ IsIdentifier(n.right) => n.right.result_type = "TYPE_INT"
        /\ (n.type = "AST_VAR_DECL" /\ n.var_type # "TYPE_BOOL" /\ IsIdentifier(n.value))
              => n.value.result_type = "TYPE_INT"

\* the type parse_factor gives the node of an operand token
AtomTokens == {"TOKEN_NUMBER", "TOKEN_BOOL_LITERAL", "TOKEN_CHAR_LITERAL",
               "TOKEN_STRING_LITERAL", "TOKEN_IDENTIFIER"}
AtomType(tok) ==
    CASE tok.type = "TOKEN_NUMBER" ->
           IF \E i \in DOMAIN tok.lexeme : tok.lexeme[i] = "." THEN "TYPE_FLOAT" ELSE "TYPE_INT"
      [] tok.type = "TOKEN_BOOL_LITERAL" -> "TYPE_BOOL"
      [] tok.type = "TOKEN_CHAR_LITERAL" -> "TYPE_CHAR"
      [] tok.type = "TOKEN_STRING_LITERAL" -> "TYPE_STRING"
      [] OTHER -> "TYPE_UNKNOWN"

\* the source is one declaration whose initializer has n tokens, and it was parsed
ParsedDeclOf(n) ==
    /\ bad = 0
    /\ frontend # "none"
    /\ Len(program) = 1
    /\ Len(source) = n + 4
    /\ source[n + 4] = K("TOKEN_SEMICOLON")
\* a op b, and a op1 b op2 c, of operand tokens and operators of parse_term
TermPair ==
    /\ ParsedDeclOf(3)
    /\ source[4].type \in AtomTokens /\ source[6].type \in AtomTokens
    /\ OpAt(5) \in TermOps
TermChain ==
    /\ ParsedDeclOf(5)
    /\ \A i \in {4, 6, 8} : source[i].type \in AtomTokens
    /\ OpAt(5) \in TermOps /\ OpAt(7) \in TermOps

\* the type of a new arithmetic node over operands of types s and t, and the
\* type an operand of type s has after it
NodeType(s, t) == IF s # t THEN "TYPE_FLOAT" ELSE s
\* the declaration does not touch the type of an initializer of type t
Untouched(t) ==
    /\ program[1].var_type # "TYPE_BOOL"
    /\ program[1].var_type \in {"TYPE_INT", "TYPE_FLOAT"} => t # "TYPE_BOOL"

\* the types of a op b as the rule gives them
PairTyped(n, ta, tb) ==
    /\ n.type = "AST_BINARY_EXPR"
    /\ n.left.result_type = NodeType(ta, tb)
    /\ n.right.result_type = NodeType(tb, ta)

\* C23: when the parser builds a + - * / node over operands whose result
\* types differ, both operand nodes become float and the new node is float;
\* when they are equal the operands are left as they are and the new node
\* takes their type.  For a op1 b op2 c the rule applies twice, the second
\* time to the node of a op1 b and c
C23_ArithmeticPromotion ==
    /\ TermPair =>
         /\ PairTyped(program[1].value, AtomType(source[4]), AtomType(source[6]))
         /\ Untouched(NodeType(AtomType(source[4]), AtomType(source[6])))
              => program[1].value.result_type
                    = NodeType(AtomType(source[4]), AtomType(source[6]))
    /\ TermChain =>
         /\ program[1].value.type = "AST_BINARY_EXPR"
         /\ PairTyped(program[1].value.left, AtomType(source[4]), AtomType(source[6]))
         /\ program[1].value.left.result_type
               = NodeType(NodeType(AtomType(source[4]), AtomType(source[6])),
                          AtomType(source[8]))
         /\ program[1].value.right.result_type
               = NodeType(AtomType(source[8]),
                          NodeType(AtomType(source[4]), AtomType(source[6])))
         /\ Untouched(program[1].value.right.result_type)
              => program[1].value.result_type = program[1].value.right.result_type

\* 1 + 1 * 1.5: two int operands were left alone and their node made int,
\* then that node and the float operand differed and the node became float
C23_Witness ==
    /\ TermChain
    /\ AtomType(source[4]) = "TYPE_INT" /\ AtomType(source[6]) = "TYPE_INT"
    /\ AtomType(source[8]) = "TYPE_FLOAT"
    /\ program[1].value.left.left.result_type = "TYPE_INT"
    /\ program[1].value.left.result_type = "TYPE_FLOAT"
    /\ program[1].value.result_type = "TYPE_FLOAT"

\* the program is one or two declarations; the places of the source where
\* the k-th one and its initializer start
OnlyDecls ==
    /\ bad = 0
    /\ frontend # "none"
    /\ Len(program) \in {1, 2}
    /\ \A k \in DOMAIN program : program[k].type = "AST_VAR_DECL"
FirstSemicolon == CHOOSE i \in DOMAIN source :
                     /\ source[i].type = "TOKEN_SEMICOLON"
                     /\ \A j \in 1..(i - 1) : source[j].type # "TOKEN_SEMICOLON"
DeclStart(k) == IF k = 1 THEN 1 ELSE FirstSemicolon + 1
DeclaredType(k) ==
    CASE source[DeclStart(k)].type = "TOKEN_INT" -> "TYPE_INT"
      [] source[DeclStart(k)].type = "TOKEN_FLOAT" -> "TYPE_FLOAT"
      [] source[DeclStart(k)].type = "TOKEN_BOOL" -> "TYPE_BOOL"
      [] source[DeclStart(k)].type = "TOKEN_CHAR" -> "TYPE_CHAR"
      [] source[DeclStart(k)].type = "TOKEN_STRING" -> "TYPE_STRING"
\* the initializer of the k-th declaration as parse_expression returned it
Inferred(k) == parse_expression(source, DeclStart(k) + 3).node

\* the type the declaration gives an initializer inferred as t
CoercedType(declared, t) ==
    IF declared = "TYPE_BOOL" THEN "TYPE_BOOL"
    ELSE IF declared \in {"TYPE_INT", "TYPE_FLOAT"} /\ t = "TYPE_BOOL" THEN "TYPE_INT"
    ELSE t

\* C24: when a declaration is parsed, a declared type of bool makes the
\* initializer bool whatever was inferred, a declared type of int or float
\* makes an initializer inferred as bool int, in every other case the
\* initializer keeps its type, and the declaration node carries the declared type
C24_DeclarationCoercion ==
    OnlyDecls =>
        \A k \in DOMAIN program :
            /\ program[k].var_type = DeclaredType(k)
            /\ program[k].value.result_type
                  = CoercedType(DeclaredType(k), Inferred(k).result_type)
            /\ program[k].value
                  = [Inferred(k) EXCEPT !.result_type = program[k].value.result_type]

\* int x = 1; kept its int initializer, and bool y = x + 1.5; made a float one bool
C24_Witness ==
    /\ OnlyDecls
    /\ Len(program) = 2
    /\ DeclaredType(1) = "TYPE_INT" /\ program[1].value.result_type = "TYPE_INT"
    /\ DeclaredType(2) = "TYPE_BOOL"
    /\ Inferred(2).result_type = "TYPE_FLOAT"
    /\ program[2].value.result_type = "TYPE_BOOL"

(***************************************************************************)
(* The lowering of declarations.                                           *)
(***************************************************************************)
\* the program is a list of declarations whose initializers are single
\* operands, none of them an integer literal
AtomDecls ==
    /\ bad = 0
    /\ frontend # "none"
    /\ Len(program) >= 1
    /\ \A k \in DOMAIN program :
          /\ program[k].type = "AST_VAR_DECL"
          /\ program[k].value.type \in {"AST_LITERAL", "AST_IDENTIFIER"}
          /\ program[k].value.type = "AST_LITERAL"
                => program[k].value.result_type \in NonIntTypes

\* the declarations before the k-th one of the name its initializer reads
EarlierDecls(k) == {j \in 1..(k - 1) : program[j].name = program[k].value.name}
LastEarlier(k) == CHOOSE j \in EarlierDecls(k) : \A i \in EarlierDecls(k) : i <= j
\* the line that loads the initializer of the k-th declaration: every
\* declaration of such a program is lowered to a load and a store after main:
LoadLine(k) == output[PlaceOf("%s:") + 2 * k - 1]
LoadOf(type) ==
    IF type = "TYPE_FLOAT" THEN "movsd xmm0, [rip + %s]" ELSE "mov rax, [rip + %s]"

\* C25: when the initializer of a declaration is lowered, an identifier
\* resolves only against the declarations before it in program order: a
\* name declared only later is reported as undefined, and a read between
\* two declarations of a name is lowered with the type of the earlier one
C25_ResolvesAgainstEarlierDeclarations ==
    (AtomDecls /\ (Lowered \/ Emitted)) =>
        \A k \in DOMAIN program :
            IsIdentifier(program[k].value) =>
                IF EarlierDecls(k) = {} THEN error = "undefined_variable"
                ELSE Emitted => LoadLine(k).op = LoadOf(program[LastEarlier(k)].var_type)

\* the register a store line reads, and the register the line before it wrote
StoreOps == {"movsd [rip + %s], xmm0", "mov [rip + %s], rax"}
StoredRegister(line) == IF line.op = "movsd [rip + %s], xmm0" THEN "xmm0" ELSE "rax"
WrittenRegister(line) == IF line.op = "movsd xmm0, [rip + %s]" THEN "xmm0" ELSE "rax"
NoIfStatement == \A k \in DOMAIN program : program[k].type = "AST_VAR_DECL"

\* C26: for every declaration the register stored into the variable, xmm0
\* for a float declaration and rax otherwise, is the register in which the
\* code of the initializer left its result: the last line of that code,
\* which stands right before the store, wrote the register the store reads
C26_StoreReadsResultRegister ==
    (Emitted /\ bad = 0 /\ NoIfStatement) =>
        \A i \in DOMAIN output :
            output[i].op \in StoreOps
               => StoredRegister(output[i]) = WrittenRegister(output[i - 1])

(***************************************************************************)
(* Logical operators and bool initializers.                                *)
(***************************************************************************)
LogicalOps == {"TOKEN_AND", "TOKEN_OR", "TOKEN_XOR"}
\* what a logical operator yields on two truth values
Logic(op, p, q) ==
    CASE op = "TOKEN_AND" -> p /\ q
      [] op = "TOKEN_OR" -> p \/ q
      [] OTHER -> p # q

\* the run stored a non-zero integer in the variable exactly when truth holds
StoredTruth(var, truth) ==
    /\ pc = "ran"
    /\ machine.status = "returned"
    /\ var \in DOMAIN machine.mem
    /\ machine.mem[var].k = "quad"
    /\ (machine.mem[var].v # 0) <=> truth

\* C27: for integer operands a and b the code emitted for a && b leaves a
\* non-zero value exactly when both are non-zero, for a || b exactly when at
\* least one is, and for a ^ b exactly when exactly one is; the declaration
\* stores that value
C27_LogicalOperators ==
    (Ended /\ (IntDeclOf(3) \/ BoolDeclOf(3)) /\ IntAt(4) /\ IntAt(6)
       /\ OpAt(5) \in LogicalOps)
        => StoredTruth(VarX, Logic(OpAt(5), NumAt(4) # 0, NumAt(6) # 0))

\* the token is a numeric literal that denotes zero: it has no digit but 0
IsNumber(tok) == tok.type = "TOKEN_NUMBER"
DenotesZero(tok) == \A i \in DOMAIN tok.lexeme : tok.lexeme[i] \in {"0", "."}

\* C28: for bool b = n; with a numeric literal n the value stored in b is
\* non-zero exactly when n is non-zero; for bool b = true; it is 1 and for
\* bool b = false; it is 0
C28_BoolInitializer ==
    (Ended /\ BoolDeclOf(1)) =>
        /\ IsNumber(source[4]) => StoredTruth(VarX, ~DenotesZero(source[4]))
        /\ source[4] = Bool(TRUE) => Holds(VarX, Quad(1))
        /\ source[4] = Bool(FALSE) => Holds(VarX, Quad(0))

(***************************************************************************)
(* The scratch stack.                                                      *)
(***************************************************************************)
\* the pushes less the pops among the first i lines of the output
Depth(i) ==
    Cardinality({j \in 1..i : output[j].op = "push rax"})
       - Cardinality({j \in 1..i : output[j].op = "pop rbx"})
\* the lines where a statement or a branch ends or starts, and the final ret
BoundaryOps == StoreOps \cup {"%s:", "je %s", "jmp %s", "ret"}

\* C29: the pushes and pops of every expression are balanced: the stack
\* never drops below its depth at the start of the expression and is back
\* at it when the expression's code ends, so the depth is the same at every
\* statement boundary and at the final ret, in the text and in the run
C29_StackBalanced ==
    /\ Emitted =>
         \A i \in DOMAIN output :
            /\ Depth(i) >= 0
            /\ output[i].op \in BoundaryOps => Depth(i) = 0
    /\ pc = "ran" =>
         /\ machine.status \notin {"stack_underflow", "bad_return"}
         /\ machine.status = "returned" => machine.stack = <<>>

\* x + x + x was lowered with two operands saved at once, and the run returned
C29_Witness ==
    /\ pc = "ran"
    /\ machine.status = "returned"
    /\ \E i \in DOMAIN output : Depth(i) = 2

(***************************************************************************)
(* The parser and the lexer.                                               *)
(***************************************************************************)
\* the place of the end marker in the token stream
EndMarker == Len(source) + 1

\* C30: the parser requests the tokens one at a time in stream order and
\* requests none after the end marker, whether the parse succeeds or fails:
\* the tokens requested are those up to the current one, never more than
\* the stream has with its end marker, all of them when an AST is returned,
\* and those up to the failing token when the parse fails
C30_NoRequestAfterEndMarker ==
    /\ requested <= EndMarker
    /\ (frontend # "none" /\ error \notin ParseErrors) => requested = EndMarker
    /\ (frontend # "none" /\ bad = EndMarker) =>
          /\ error \in ParseErrors
          /\ requested = FirstFailing

\* the file ended inside an expression: the parser failed on the end marker
\* itself, the last token it requested
C30_Witness ==
    /\ pc = "exit"
    /\ bad = EndMarker
    /\ bad > 4
    /\ requested = EndMarker
    /\ error = "unexpected_token"

=============================================================================
